---- MODULE Spec2Model ----
(***************************************************************************)
(* A model of the fd-fst directory crawler (play_count_dir): the counting  *)
(* semaphore drafts (ac_lock.rs, count_lock.rs with semaphore.rs), the     *)
(* parking lock drafts built on them (cond_lock.rs with guards.rs,         *)
(* predicate_lock.rs), the rolling history window (history.rs), the work   *)
(* buffer and its slices, and the worker/executor scheduling loop          *)
(* (main.rs).                                                              *)
(*                                                                         *)
(* Each component has its own specification over the shared variable       *)
(* tuple; a specification leaves the other components' variables alone.    *)
(***************************************************************************)
EXTENDS Integers, Sequences, FiniteSets, TLC

VARIABLES sem, hv, work_buf, lk, th, chan, ex

vars == <<sem, hv, work_buf, lk, th, chan, ex>>

(***************************************************************************)
(* Bounds of the model.                                                    *)
(***************************************************************************)
MaxLimit == 3      \* semaphore limits are drawn from 1..MaxLimit
MaxOps == 5        \* try_lock/unlock calls per run of the semaphore
MaxPushes == 5     \* pushes per run of the history window
MaxSample == 4     \* samples are drawn from 1..MaxSample

\* Width of the unsigned counter type N (u8 is the narrowest UnsignedNum).
U8_MODULUS == 256

Min(a, b) == IF a < b THEN a ELSE b
Max(a, b) == IF a > b THEN a ELSE b

RECURSIVE SumSeq(_)
SumSeq(s) == IF s = <<>> THEN 0 ELSE Head(s) + SumSeq(Tail(s))

(***************************************************************************)
(* Counting semaphore state: ac_lock.rs Counter and count_lock.rs Counter. *)
(* A counter value is [curr, limit]; every operation returns               *)
(* [ret, curr, panic, underflow]: its boolean result, the counter          *)
(* afterwards, whether the call panicked (arithmetic overflow in a build   *)
(* with overflow checks), and whether an unsigned subtraction it made went *)
(* below zero (which panics with overflow checks and wraps without).       *)
(***************************************************************************)
Drafts == {"ac_lock", "count_lock"}

Counter_new(limit) == [curr |-> 0, limit |-> limit]

\* ac_lock.rs: self.curr - self.limit on an unsigned type.  With overflow
\* checks the subtraction panics when curr < limit; without, it wraps.
remaining_capacity(c, overflow_checks) ==
    IF c.curr >= c.limit
    THEN [panic |-> FALSE, val |-> c.curr - c.limit, underflow |-> FALSE]
    ELSE IF overflow_checks
         THEN [panic |-> TRUE, val |-> 0, underflow |-> TRUE]
         ELSE [panic |-> FALSE, val |-> (c.curr + U8_MODULUS - c.limit) % U8_MODULUS,
               underflow |-> TRUE]

\* ac_lock.rs increment: `self.curr.add(N::ONE);` computes curr + 1 and drops
\* the value (Add::add takes self by value): the field is not assigned.
Ac_increment(c, overflow_checks) ==
    LET rc == remaining_capacity(c, overflow_checks) IN
    IF rc.panic
    THEN [ret |-> FALSE, curr |-> c.curr, panic |-> TRUE, underflow |-> rc.underflow]
    ELSE IF rc.val > 0
         THEN [ret |-> TRUE, curr |-> c.curr, panic |-> FALSE, underflow |-> rc.underflow]
         ELSE [ret |-> FALSE, curr |-> c.curr, panic |-> FALSE, underflow |-> rc.underflow]

\* ac_lock.rs decrement: `self.curr.sub(N::ONE); false` and `false`.
Ac_decrement(c) ==
    IF c.curr > 0
    THEN [ret |-> FALSE, curr |-> c.curr, panic |-> FALSE, underflow |-> c.curr < 1]
    ELSE [ret |-> FALSE, curr |-> c.curr, panic |-> FALSE, underflow |-> FALSE]

\* ac_lock.rs is_locked: remaining_capacity() > 0.
Ac_is_locked(c, overflow_checks) ==
    LET rc == remaining_capacity(c, overflow_checks) IN
    [panic |-> rc.panic, val |-> (~rc.panic /\ rc.val > 0), underflow |-> rc.underflow]

\* semaphore.rs is_locked of the count_lock.rs CountingLock: curr < limit.
Count_is_locked(c) ==
    [panic |-> FALSE, val |-> c.curr < c.limit, underflow |-> FALSE]

\* count_lock.rs increment: `self.curr().add(N::ONE); true`.
Count_increment(c) ==
    IF c.curr < c.limit
    THEN [ret |-> TRUE, curr |-> c.curr, panic |-> FALSE, underflow |-> FALSE]
    ELSE [ret |-> FALSE, curr |-> c.curr, panic |-> FALSE, underflow |-> FALSE]

\* count_lock.rs decrement: `self.curr.sub(N::ONE); false` and `false`.
Count_decrement(c) ==
    IF c.curr > 0
    THEN [ret |-> FALSE, curr |-> c.curr, panic |-> FALSE, underflow |-> c.curr < 1]
    ELSE [ret |-> FALSE, curr |-> c.curr, panic |-> FALSE, underflow |-> FALSE]

\* LockState::try_lock / unlock of the draft in use.
try_lock(draft, c, overflow_checks) ==
    IF draft = "ac_lock" THEN Ac_increment(c, overflow_checks) ELSE Count_increment(c)

\* unlock that panics when there is nothing to release.
unlock_fatal_at_zero(draft, c) ==
    IF c.curr = 0
    THEN [ret |-> FALSE, curr |-> c.curr, panic |-> TRUE, underflow |-> FALSE]
    ELSE IF draft = "ac_lock" THEN Ac_decrement(c) ELSE Count_decrement(c)

unlock(draft, c) ==
    IF draft = "ac_lock" THEN Ac_decrement(c) ELSE Count_decrement(c)

\* is_locked of the draft in use, as [ret, curr, panic, underflow].
is_locked(draft, c, overflow_checks) ==
    LET il == IF draft = "ac_lock" THEN Ac_is_locked(c, overflow_checks)
              ELSE Count_is_locked(c)
    IN [ret |-> il.val, curr |-> c.curr, panic |-> il.panic, underflow |-> il.underflow]

(***************************************************************************)
(* The semaphore driven by calls.  sem.live counts the try_lock calls that *)
(* returned success and were not yet matched by an unlock; sem.trace       *)
(* records every call with the counter before and after it.                *)
(***************************************************************************)
SemIdle == [draft |-> "none", overflow_checks |-> FALSE, curr |-> 0, limit |-> 0,
            panicked |-> FALSE, live |-> 0, trace |-> <<>>]

SemCounter == [curr |-> sem.curr, limit |-> sem.limit]

SemCall(op, r) ==
    [op |-> op, ret |-> r.ret, pre |-> sem.curr, post |-> r.curr,
     live_pre |-> sem.live, panic |-> r.panic, underflow |-> r.underflow]

SemTryLock ==
    /\ sem.draft \in Drafts
    /\ ~sem.panicked
    /\ Len(sem.trace) < MaxOps
    /\ LET r == try_lock(sem.draft, SemCounter, sem.overflow_checks) IN
       sem' = [sem EXCEPT !.curr = r.curr,
                          !.panicked = r.panic,
                          !.live = IF r.ret THEN @ + 1 ELSE @,
                          !.trace = Append(@, SemCall("try_lock", r))]
    /\ UNCHANGED <<hv, work_buf, lk, th, chan, ex>>

SemUnlock ==
    /\ sem.draft \in Drafts
    /\ ~sem.panicked
    /\ Len(sem.trace) < MaxOps
    /\ LET r == unlock(sem.draft, SemCounter) IN
       sem' = [sem EXCEPT !.curr = r.curr,
                          !.panicked = r.panic,
                          !.live = IF @ > 0 THEN @ - 1 ELSE @,
                          !.trace = Append(@, SemCall("unlock", r))]
    /\ UNCHANGED <<hv, work_buf, lk, th, chan, ex>>

SemIsLocked ==
    /\ sem.draft \in Drafts
    /\ ~sem.panicked
    /\ Len(sem.trace) < MaxOps
    /\ LET r == is_locked(sem.draft, SemCounter, sem.overflow_checks) IN
       sem' = [sem EXCEPT !.curr = r.curr,
                          !.panicked = r.panic,
                          !.trace = Append(@, SemCall("is_locked", r))]
    /\ UNCHANGED <<hv, work_buf, lk, th, chan, ex>>

SemNext == SemTryLock \/ SemUnlock \/ SemIsLocked

(***************************************************************************)
(* Rolling history window: history.rs HistoryVec over the integer sample   *)
(* type HistData<usize, isize> (num_hist.rs, num_usize.rs).  Samples are   *)
(* non-negative, so adaptor and absolute coincide and a sample is a        *)
(* natural number.                                                         *)
(***************************************************************************)
\* The window capacity: history.rs takes it as the const generic MAX_HISTORY.
MAX_HISTORY == 3

HistoryVec_default == [inner |-> <<>>, average |-> 0]

\* HistoryNum::iter_sum: fold of increment from Default (0).
iter_sum(s) == SumSeq(s)

\* num_usize.rs div_usize: Err on a zero divisor, else integer division;
\* HistoryVec::push maps the Err to Default (0).
div_usize(x, rhs) == IF rhs = 0 THEN 0 ELSE x \div rhs

\* Vec::pop removes the LAST element of the vector.
Vec_pop(s) == IF s = <<>> THEN s ELSE SubSeq(s, 1, Len(s) - 1)

\* HistoryVec::push averaging before the new sample is stored.
HistoryVec_push_stale_average(h, k) ==
    LET kept == IF Len(h.inner) = MAX_HISTORY THEN Vec_pop(h.inner) ELSE h.inner
    IN [inner |-> Append(kept, k), average |-> div_usize(iter_sum(kept), Len(kept))]

\* history.rs HistoryVec::push.
HistoryVec_push(h, k) ==
    LET kept == IF Len(h.inner) = MAX_HISTORY THEN Vec_pop(h.inner) ELSE h.inner
        inner == Append(kept, k)
    IN [inner |-> inner, average |-> div_usize(iter_sum(inner), Len(inner))]

\* hv.pushed records every sample pushed so far, oldest first.
HvIdle == [inner |-> <<>>, average |-> 0, pushed |-> <<>>, active |-> FALSE]

HvPush(k) ==
    /\ hv.active
    /\ Len(hv.pushed) < MaxPushes
    /\ LET h == HistoryVec_push([inner |-> hv.inner, average |-> hv.average], k) IN
       hv' = [hv EXCEPT !.inner = h.inner, !.average = h.average,
                        !.pushed = Append(@, k)]
    /\ UNCHANGED <<sem, work_buf, lk, th, chan, ex>>

HistNext == \E k \in 1..MaxSample : HvPush(k)

(***************************************************************************)
(* Work buffer and work slices (main.rs).  A path is identified by its     *)
(* index in the backing vector of the buffer that holds it, so a buffer is *)
(* [len, pending_from, shared_with_others] and a slice is                  *)
(* [source, owner, start, end, cursor], owner naming the backing buffer.   *)
(***************************************************************************)
MaxSeed == 3       \* seed paths of a lone work buffer are drawn from 0..MaxSeed
MaxBufLen == 5     \* a lone work buffer grows to at most this many paths
MaxClaimSize == 3  \* claim sizes are drawn from 0..MaxClaimSize
MaxClaims == 4     \* claims issued per run against a lone work buffer
MaxExtend == 2     \* paths appended by one extend call are drawn from 1..MaxExtend

WorkBuf_from(n) == [len |-> n, pending_from |-> 0, shared_with_others |-> <<>>]

WorkSlice_new(source, owner, start, end) ==
    [source |-> source, owner |-> owner, start |-> start, end |-> end, cursor |-> start]

WorkSlice_len(s) == s.end - s.start

\* WorkSlice::split with the remainder beginning one index after the cut.
WorkSlice_split_skipping_cut(s, split_size) ==
    IF split_size > WorkSlice_len(s)
    THEN [first |-> s, rest |-> <<>>]
    ELSE [first |-> WorkSlice_new(s.source, s.owner, s.start, s.start + split_size),
          rest |-> <<WorkSlice_new(s.source, s.owner, s.start + split_size + 1, s.end)>>]

\* WorkSlice::split: (self, None) when split_size > len, else two halves,
\* both rebuilt by WorkSlice::new.  None is the empty sequence here.
WorkSlice_split(s, split_size) ==
    IF split_size > WorkSlice_len(s)
    THEN [first |-> s, rest |-> <<>>]
    ELSE [first |-> WorkSlice_new(s.source, s.owner, s.start, s.start + split_size),
          rest |-> <<WorkSlice_new(s.source, s.owner, s.start + split_size, s.end)>>]

empty_pending(wb) == wb.pending_from = wb.len

\* next_pending_from without the cap at the buffer's length.
next_pending_from_uncapped(wb, size) == wb.pending_from + size

next_pending_from(wb, size) == Min(wb.pending_from + size, wb.len)

\* total_pending taken as the buffer's length, whatever the cursor.
total_pending_ignoring_cursor(wb) == wb.len

total_pending(wb) == wb.len - wb.pending_from

\* get_work_slice with the slice's end taken from the requested size instead
\* of from the capped cursor.
get_work_slice_uncapped_end(wb, owner, source, size) ==
    LET start == wb.pending_from
        np == next_pending_from(wb, size)
    IN [wb |-> [wb EXCEPT !.pending_from = np],
        slice |-> WorkSlice_new(source, owner, start, start + size)]

\* WorkBuf::get_work_slice: returns the buffer afterwards and the slice.
get_work_slice(wb, owner, source, size) ==
    LET start == wb.pending_from
        np == next_pending_from(wb, size)
    IN [wb |-> [wb EXCEPT !.pending_from = np],
        slice |-> WorkSlice_new(source, owner, start, np)]

get_work_for_local(wb, owner, size) == get_work_slice(wb, owner, "Local", size)

get_work_for_sharing(wb, owner, size) ==
    LET r == get_work_slice(wb, owner, "Shared", size) IN
    [wb |-> [r.wb EXCEPT !.shared_with_others = Append(@, <<r.slice.start, r.slice.end>>)],
     slice |-> r.slice]

\* WorkBuf::extend with n new paths.
extend(wb, n) == [wb EXCEPT !.len = @ + n]

\* Vec::extend putting the new paths in front of the old ones.
Vec_extend_in_front(buf, paths) == paths \o buf

\* Vec::extend, as WorkBuf::extend calls it on the backing vector.
Vec_extend(buf, paths) == buf \o paths

\* The n paths a worker appends to a vector that holds paths 1..k: paths
\* are named by the order of their discovery.
NewPaths(k, n) == [i \in 1..n |-> k + i]

\* A lone work buffer driven by calls; work_buf.claims records every slice
\* handed out, in order, work_buf.buf the content of the backing vector, and
\* work_buf.last_op / last_size the latest call and its argument.
WorkBufIdle == [len |-> 0, pending_from |-> 0, shared_with_others |-> <<>>,
                claims |-> <<>>, active |-> FALSE, buf |-> <<>>,
                last_op |-> "none", last_size |-> 0]

TheWorkBuf == [len |-> work_buf.len, pending_from |-> work_buf.pending_from,
               shared_with_others |-> work_buf.shared_with_others]

WbInstall(op, size, r) ==
    work_buf' = [work_buf EXCEPT !.len = r.wb.len,
                                 !.pending_from = r.wb.pending_from,
                                 !.shared_with_others = r.wb.shared_with_others,
                                 !.claims = Append(@, r.slice),
                                 !.last_op = op, !.last_size = size]

WbGetWorkForLocal(size) ==
    /\ work_buf.active
    /\ Len(work_buf.claims) < MaxClaims
    /\ WbInstall("get_work_for_local", size, get_work_for_local(TheWorkBuf, 0, size))
    /\ UNCHANGED <<sem, hv, lk, th, chan, ex>>

WbGetWorkForSharing(size) ==
    /\ work_buf.active
    /\ Len(work_buf.claims) < MaxClaims
    /\ WbInstall("get_work_for_sharing", size, get_work_for_sharing(TheWorkBuf, 0, size))
    /\ UNCHANGED <<sem, hv, lk, th, chan, ex>>

WbExtend(n) ==
    /\ work_buf.active
    /\ work_buf.len + n <= MaxBufLen
    /\ work_buf' = [work_buf EXCEPT !.len = extend(TheWorkBuf, n).len,
                                    !.buf = Vec_extend(@, NewPaths(Len(@), n)),
                                    !.last_op = "extend", !.last_size = n]
    /\ UNCHANGED <<sem, hv, lk, th, chan, ex>>

WorkBufNext ==
    \/ \E size \in 0..MaxClaimSize : WbGetWorkForLocal(size)
    \/ \E size \in 0..MaxClaimSize : WbGetWorkForSharing(size)
    \/ \E n \in 1..MaxExtend : WbExtend(n)

(***************************************************************************)
(* The parking lock: cond_lock.rs RawLock over the ac_lock.rs counter,     *)
(* with guards.rs guards.  lk.queue is the parking engine's wait queue for *)
(* the lock's address (parking_lot_core), oldest waiter first; lk.parked   *)
(* is the lock's has-parked flag; lk.pc is each thread's position:         *)
(*   "call"      about to call wait_for_access_until(None)                 *)
(*   "parked"    suspended inside park                                     *)
(*   "woken"     park returned Unparked, try_lock comes next               *)
(*   "holding"   owns a guard                                              *)
(*   "unlocked"  the guard's drop has run state.unlock(), notify is next   *)
(*   "done"      the guard's drop has finished                             *)
(*   "panicked"  the thread panicked                                       *)
(* lk.seen records the threads that were parked when a notify ran.         *)
(***************************************************************************)
NHolders == 2      \* threads that start out owning a guard
NWaiters == 3      \* threads that start out calling wait_for_access

Holders == 1..NHolders
Waiters == (NHolders + 1)..(NHolders + NWaiters)
LkThreads == Holders \cup Waiters

LkCounter == [curr |-> lk.curr, limit |-> lk.limit]

\* What unpark_requeue(addr, addr, ..) does to the queue for each RequeueOp:
\* the queue afterwards, the threads woken, and the UnparkResult.
unpark_requeue(queue, op) ==
    IF op = "Abort" \/ queue = <<>>
    THEN [queue |-> queue, woken |-> {}, unparked_threads |-> 0,
          requeued_threads |-> 0, have_more_threads |-> FALSE, called_back |-> op # "Abort"]
    ELSE IF op = "UnparkOne"
    THEN [queue |-> Tail(queue), woken |-> {Head(queue)}, unparked_threads |-> 1,
          requeued_threads |-> 0, have_more_threads |-> Len(queue) > 1, called_back |-> TRUE]
    ELSE IF op = "RequeueOne"
    THEN [queue |-> Append(Tail(queue), Head(queue)), woken |-> {}, unparked_threads |-> 0,
          requeued_threads |-> 1, have_more_threads |-> Len(queue) > 1, called_back |-> TRUE]
    ELSE IF op = "RequeueAll"
    THEN [queue |-> queue, woken |-> {}, unparked_threads |-> 0,
          requeued_threads |-> Len(queue), have_more_threads |-> FALSE, called_back |-> TRUE]
    ELSE \* UnparkOneRequeueRest
         [queue |-> Tail(queue), woken |-> {Head(queue)}, unparked_threads |-> 1,
          requeued_threads |-> Len(queue) - 1, have_more_threads |-> FALSE, called_back |-> TRUE]

\* cond_lock.rs notify_one / notify_one_slow on lock state l: the state of
\* the lock afterwards, the threads woken, whether the caller panicked, the
\* RequeueOp validate chose ("none" on the fast path) and the value returned.
notify_one(l) ==
    IF ~l.parked
    THEN [parked |-> l.parked, queue |-> l.queue, woken |-> {}, panic |-> FALSE,
          op |-> "none", ret |-> FALSE]
    ELSE LET il == Ac_is_locked([curr |-> l.curr, limit |-> l.limit], l.overflow_checks)
             \* validate: parked.read().then(|| !is_locked): Some(true) requeues
             op == IF ~il.val THEN "RequeueOne" ELSE "UnparkOne"
             res == unpark_requeue(l.queue, op)
             \* Some(true) marks parked; the callback clears it when no more threads
             flag == IF res.called_back /\ ~res.have_more_threads THEN FALSE ELSE TRUE
         IN IF il.panic
            THEN [parked |-> l.parked, queue |-> l.queue, woken |-> {}, panic |-> TRUE,
                  op |-> "none", ret |-> FALSE]
            ELSE [parked |-> flag, queue |-> res.queue, woken |-> res.woken, panic |-> FALSE,
                  op |-> op, ret |-> res.unparked_threads + res.requeued_threads # 0]

\* cond_lock.rs notify_all / notify_all_slow.
notify_all(l) ==
    IF ~l.parked
    THEN [parked |-> l.parked, queue |-> l.queue, woken |-> {}, panic |-> FALSE,
          op |-> "none", ret |-> 0]
    ELSE LET il == Ac_is_locked([curr |-> l.curr, limit |-> l.limit], l.overflow_checks)
             op == IF il.val THEN "RequeueAll" ELSE "UnparkOneRequeueRest"
             res == unpark_requeue(l.queue, op)
             \* the callback marks parked again only for UnparkOneRequeueRest
             \* with requeued threads; nothing clears the flag otherwise
             flag == IF op = "UnparkOneRequeueRest" /\ res.called_back
                        /\ res.requeued_threads # 0
                     THEN TRUE ELSE l.parked
         IN IF il.panic
            THEN [parked |-> l.parked, queue |-> l.queue, woken |-> {}, panic |-> TRUE,
                  op |-> "none", ret |-> 0]
            ELSE [parked |-> flag, queue |-> res.queue, woken |-> res.woken, panic |-> FALSE,
                  op |-> op, ret |-> res.unparked_threads + res.requeued_threads]

\* predicate_lock.rs has_parked_then_is_locked: has_parked().then(|| !is_locked()),
\* None being "None"; is_locked is the semaphore.rs one.
has_parked_then_is_locked(l) ==
    IF l.parked
    THEN IF ~Count_is_locked([curr |-> l.curr, limit |-> l.limit]).val
         THEN "Some(true)" ELSE "Some(false)"
    ELSE "None"

\* predicate_lock.rs notify_one / notify_one_slow.
PredicateLock_notify_one(l) ==
    IF ~l.parked
    THEN [parked |-> l.parked, queue |-> l.queue, woken |-> {}, panic |-> FALSE,
          op |-> "none", ret |-> FALSE]
    ELSE LET v == has_parked_then_is_locked(l)
             op == IF v = "Some(true)" THEN "RequeueOne"
                   ELSE IF v = "Some(false)" THEN "UnparkOne" ELSE "Abort"
             res == unpark_requeue(l.queue, op)
             \* Some(true) marks parked; the callback clears it when no more threads
             flag == IF res.called_back /\ ~res.have_more_threads THEN FALSE ELSE TRUE
         IN [parked |-> flag, queue |-> res.queue, woken |-> res.woken, panic |-> FALSE,
             op |-> op, ret |-> res.unparked_threads + res.requeued_threads # 0]

\* predicate_lock.rs notify_all / notify_all_slow: validate maps the value of
\* has_parked_then_is_locked and clears the parked flag whatever it chose.
PredicateLock_notify_all(l) ==
    IF ~l.parked
    THEN [parked |-> l.parked, queue |-> l.queue, woken |-> {}, panic |-> FALSE,
          op |-> "none", ret |-> 0]
    ELSE LET v == has_parked_then_is_locked(l)
             op == IF v = "Some(true)" THEN "RequeueAll"
                   ELSE IF v = "Some(false)" THEN "UnparkOneRequeueRest" ELSE "Abort"
             res == unpark_requeue(l.queue, op)
             flag == op = "UnparkOneRequeueRest" /\ res.called_back
                        /\ res.requeued_threads # 0
         IN [parked |-> flag, queue |-> res.queue, woken |-> res.woken, panic |-> FALSE,
             op |-> op, ret |-> res.unparked_threads + res.requeued_threads]

\* notify_one / notify_all of the lock draft built on the given counter
\* draft: cond_lock.rs over ac_lock.rs, predicate_lock.rs over count_lock.rs.
notify(draft, l, all) ==
    IF draft = "ac_lock"
    THEN IF all THEN notify_all(l) ELSE notify_one(l)
    ELSE IF all THEN PredicateLock_notify_all(l) ELSE PredicateLock_notify_one(l)

LkIdle == [curr |-> 0, limit |-> 0, overflow_checks |-> FALSE, parked |-> FALSE,
           queue |-> <<>>, pc |-> <<>>, seen |-> {}]

\* wait_for_access: one call of wait_for_access_until(None).  The call parks
\* first (validate is always true, no timeout), without touching the parked
\* flag; once unparked it calls try_lock and either builds the guard or
\* reports AttemptFailed, which the loop of wait_for_access retries.
LkWaitForAccess(t) ==
    /\ lk.pc[t] \in {"call", "woken"}
    /\ IF lk.pc[t] = "call"
       THEN lk' = [lk EXCEPT !.queue = Append(@, t), !.pc[t] = "parked"]
       ELSE LET r == try_lock("ac_lock", LkCounter, lk.overflow_checks) IN
            lk' = [lk EXCEPT !.curr = r.curr,
                             !.pc[t] = IF r.panic THEN "panicked"
                                       ELSE IF r.ret THEN "holding" ELSE "call"]
    /\ UNCHANGED <<sem, hv, work_buf, th, chan, ex>>

\* guards.rs Drop for RawGuard, first half: lock.state().write().unlock().
LkDropUnlock(t) ==
    /\ lk.pc[t] = "holding"
    /\ LET r == unlock("ac_lock", LkCounter) IN
       lk' = [lk EXCEPT !.curr = r.curr, !.pc[t] = "unlocked"]
    /\ UNCHANGED <<sem, hv, work_buf, th, chan, ex>>

\* guards.rs Drop for RawGuard, second half: Self::notify(lock), which is
\* notify_one or notify_all.
LkDropNotify(t, all) ==
    /\ lk.pc[t] = "unlocked"
    /\ LET r == IF all THEN notify_all(lk) ELSE notify_one(lk) IN
       lk' = [lk EXCEPT !.parked = r.parked,
                        !.queue = r.queue,
                        !.seen = @ \cup {u \in LkThreads : lk.pc[u] = "parked"},
                        !.pc = [u \in LkThreads |->
                                  IF u = t THEN (IF r.panic THEN "panicked" ELSE "done")
                                  ELSE IF u \in r.woken THEN "woken" ELSE lk.pc[u]]]
    /\ UNCHANGED <<sem, hv, work_buf, th, chan, ex>>

LkStep(t) ==
    \/ LkWaitForAccess(t)
    \/ LkDropUnlock(t)
    \/ \E all \in BOOLEAN : LkDropNotify(t, all)

LockNext == \E t \in LkThreads : LkStep(t)

(***************************************************************************)
(* notify_one and notify_all as functions of the lock: the lock they are   *)
(* applied to is drawn from all values of its fields (counter, parked      *)
(* flag, threads in the wait queue).  lk.notes records every call.         *)
(***************************************************************************)
MaxNotifies == 2   \* notify calls per run

\* The first n waiters, in queue order.
FirstWaiters(n) == [i \in 1..n |-> NHolders + i]

NotifyNote(all, r) ==
    [all |-> all, flagged |-> lk.parked,
     is_locked |-> is_locked(lk.draft, LkCounter, lk.overflow_checks).ret,
     op |-> r.op, ret |-> r.ret, woken |-> Cardinality(r.woken), panic |-> r.panic,
     queue_pre |-> lk.queue, queue_post |-> r.queue, parked_post |-> r.parked]

\* wait_for_access_until up to the park: the thread joins the wait queue.
NtPark(t) ==
    /\ lk.pc[t] = "idle"
    /\ lk' = [lk EXCEPT !.queue = Append(@, t), !.pc[t] = "parked"]
    /\ UNCHANGED <<sem, hv, work_buf, th, chan, ex>>

NtNotify(all) ==
    /\ Len(lk.notes) < MaxNotifies
    /\ \A i \in 1..Len(lk.notes) : ~lk.notes[i].panic
    /\ LET r == notify(lk.draft, lk, all) IN
       lk' = [lk EXCEPT !.parked = r.parked,
                        !.queue = r.queue,
                        !.notes = Append(@, NotifyNote(all, r)),
                        !.pc = [u \in Waiters |-> IF u \in r.woken THEN "woken" ELSE lk.pc[u]]]
    /\ UNCHANGED <<sem, hv, work_buf, th, chan, ex>>

NotifyNext ==
    \/ \E t \in Waiters : NtPark(t)
    \/ \E all \in BOOLEAN : NtNotify(all)

(***************************************************************************)
(* wait_for_access_until and the unbounded wrapper around it               *)
(* (cond_lock.rs wait_for_access, semaphore.rs access), as one thread      *)
(* calling them on a lock whose counter is drawn from all its values.      *)
(* lk.calls records every call of wait_for_access_until; lk.pc is the       *)
(* caller's position: "call" about to call, "parked" inside park,          *)
(* "returned" the wrapper returned a guard, "panicked".                    *)
(***************************************************************************)
MaxCalls == 3      \* calls of wait_for_access_until per run

\* parking_lot_core::park as wait_for_access_until calls it: validate is
\* always true, so the thread is queued; the wait ends by an unpark or, with
\* a timeout, by its expiry.  The fourth closure (requeued = k != addr) is
\* park's timed_out callback: it runs only when the timeout expires, with the
\* address the thread is queued on at that moment.
park(moved, ending) ==
    [is_unparked |-> ending = "unpark",
     requeued |-> IF ending = "timeout" THEN moved ELSE FALSE]

\* wait_for_access_until after park has returned pk, on counter c.  The
\* failure variant is AttemptFailed in guards.rs and Failure in
\* predicate_lock.rs; Ok is the guard.
wait_for_access_until(draft, c, overflow_checks, pk) ==
    IF pk.requeued
    THEN [outcome |-> "Requeued", curr |-> c.curr, try_locks |-> 0, try_ret |-> FALSE]
    ELSE IF pk.is_unparked
    THEN LET r == try_lock(draft, c, overflow_checks) IN
         [outcome |-> IF r.panic THEN "panic" ELSE IF r.ret THEN "Ok" ELSE "AttemptFailed",
          curr |-> r.curr, try_locks |-> 1, try_ret |-> r.ret]
    ELSE [outcome |-> "TimedOut", curr |-> c.curr, try_locks |-> 0, try_ret |-> FALSE]

\* The wrapper's loop condition on the latest result.
\* cond_lock.rs: result.as_ref().err().map_or(false, |err| !err.timed_out())
\* semaphore.rs: !result.is_some_and(|result| result.timed_out())
wait_for_access_continues(draft, outcome) ==
    IF draft = "ac_lock"
    THEN outcome \in {"AttemptFailed", "Requeued"}
    ELSE outcome # "TimedOut"

\* The wrapper once its loop has ended: result.unwrap() in cond_lock.rs, the
\* match with its panic! arm in semaphore.rs.
wait_for_access_end(outcome) == IF outcome = "Ok" THEN "returned" ELSE "panicked"

\* The caller enters wait_for_access_until and parks.  The wrapper passes
\* None; a direct caller passes None or Some(instant).
WaitCall(has_timeout) ==
    /\ lk.pc = "call"
    /\ Len(lk.calls) < MaxCalls
    /\ lk.mode = "wrapper" => ~has_timeout
    /\ lk' = [lk EXCEPT !.pc = "parked", !.has_timeout = has_timeout,
                        !.queue = Append(@, 1)]
    /\ UNCHANGED <<sem, hv, work_buf, th, chan, ex>>

\* park returns and wait_for_access_until runs to its end; for the wrapper,
\* the loop condition is evaluated on the outcome.
WaitParkReturns(moved, ending) ==
    /\ lk.pc = "parked"
    /\ ending = "timeout" => lk.has_timeout
    /\ LET r == wait_for_access_until(lk.draft, LkCounter, lk.overflow_checks,
                                      park(moved, ending))
       IN lk' = [lk EXCEPT
                   !.curr = r.curr,
                   !.queue = <<>>,
                   !.calls = Append(@, [has_timeout |-> lk.has_timeout, moved |-> moved,
                                        ending |-> ending, outcome |-> r.outcome,
                                        try_locks |-> r.try_locks, try_ret |-> r.try_ret,
                                        pre |-> lk.curr, post |-> r.curr]),
                   !.pc = IF r.outcome = "panic" THEN "panicked"
                          ELSE IF lk.mode = "until" THEN "call"
                          ELSE IF wait_for_access_continues(lk.draft, r.outcome) THEN "call"
                          ELSE wait_for_access_end(r.outcome)]
    /\ UNCHANGED <<sem, hv, work_buf, th, chan, ex>>

WaitNext ==
    \/ \E has_timeout \in BOOLEAN : WaitCall(has_timeout)
    \/ \E moved \in BOOLEAN, ending \in {"unpark", "timeout"} : WaitParkReturns(moved, ending)

(***************************************************************************)
(* Guards and their release: guards.rs Drop for RawGuard (cond_lock.rs     *)
(* draft) and predicate_lock.rs Drop for Guard.  lk.guard is the guard's   *)
(* Option<&RawLock> (raw_lock_mut), lk.exit the way the holder left its    *)
(* critical section, lk.events what the guard's drop has called so far.    *)
(***************************************************************************)
ExitPaths == {"end_of_scope", "early_return", "unwind"}

\* The holder leaves its critical section; the guard goes out of scope and
\* its drop starts.
GdExit(t, path) ==
    /\ lk.pc[t] = "holding"
    /\ lk' = [lk EXCEPT !.pc[t] = "dropping", !.exit[t] = path]
    /\ UNCHANGED <<sem, hv, work_buf, th, chan, ex>>

\* guards.rs: if let Some(lock) = self.raw_lock_mut().take() { unlock; .. }
\* predicate_lock.rs: self.write_raw().unlock() is the whole drop.
GdDropUnlock(t) ==
    /\ lk.pc[t] = "dropping"
    /\ IF lk.draft = "ac_lock" /\ lk.guard[t] = "None"
       THEN lk' = [lk EXCEPT !.pc[t] = "done"]
       ELSE LET r == unlock(lk.draft, LkCounter) IN
            lk' = [lk EXCEPT !.curr = r.curr,
                             !.guard[t] = IF lk.draft = "ac_lock" THEN "None" ELSE @,
                             !.events[t] = Append(@, "unlock"),
                             !.pc[t] = IF lk.draft = "ac_lock" THEN "unlocked" ELSE "done"]
    /\ UNCHANGED <<sem, hv, work_buf, th, chan, ex>>

\* guards.rs: Self::notify(lock), which is notify_one or notify_all.
GdDropNotify(t, all) ==
    /\ lk.pc[t] = "unlocked"
    /\ LET r == notify(lk.draft, lk, all) IN
       lk' = [lk EXCEPT !.parked = r.parked,
                        !.queue = r.queue,
                        !.events[t] = Append(@, "notify"),
                        !.pc[t] = IF r.panic THEN "panicked" ELSE "done"]
    /\ UNCHANGED <<sem, hv, work_buf, th, chan, ex>>

GuardNext ==
    \/ \E t \in Holders, path \in ExitPaths : GdExit(t, path)
    \/ \E t \in Holders : GdDropUnlock(t)
    \/ \E t \in Holders, all \in BOOLEAN : GdDropNotify(t, all)

(***************************************************************************)
(* Thread, ThreadHandle and Executor (main.rs).  A path is named by the    *)
(* worker whose buffer holds it and its index there.  The directory tree   *)
(* is finite: th.unseen counts its sub-directories not yet discovered.     *)
(***************************************************************************)
NUM_THREADS == 2              \* worker threads of the pool (main.rs runs 8)
DEFAULT_WORK_CHUNK_SIZE == 2  \* paths per local claim (main.rs uses 64)
MaxSeedPaths == 3   \* the seed handed to Executor::new has 0..MaxSeedPaths paths
MaxUnseen == 3      \* sub-directories of the tree below the seed paths
MaxChildren == 3    \* sub-directories found by scanning one path: 0..MaxChildren
MaxRequest == 2     \* request sizes are drawn from 1..MaxRequest
MaxQueued == 1      \* surplus requests waiting for one worker in a run of the transfer
MaxShares == 1      \* surplus slices one worker carves in a run of the transfer
MaxDeliveries == 1  \* work deliveries one worker is sent in a run of the transfer
MaxSurplusBuf == 2  \* buffer length of a worker in a run of the transfer

Threads == 0..(NUM_THREADS - 1)

Last(s) == s[Len(s)]

RECURSIVE Flatten(_)
Flatten(ss) == IF ss = <<>> THEN <<>> ELSE Head(ss) \o Flatten(Tail(ss))

\* f[0] \o f[1] \o ... \o f[n-1]
RECURSIVE ConcatUpTo(_, _)
ConcatUpTo(f, n) == IF n = 0 THEN <<>> ELSE ConcatUpTo(f, n - 1) \o f[n - 1]

\* f[0] + f[1] + ... + f[n-1]
RECURSIVE SumUpTo(_, _)
SumUpTo(f, n) == IF n = 0 THEN 0 ELSE SumUpTo(f, n - 1) + f[n - 1]

RECURSIVE MaxUpTo(_, _)
MaxUpTo(f, n) == IF n = 0 THEN 0 ELSE Max(MaxUpTo(f, n - 1), f[n - 1])

RECURSIVE SlicesLen(_)
SlicesLen(ss) == IF ss = <<>> THEN 0 ELSE WorkSlice_len(Head(ss)) + SlicesLen(Tail(ss))

EmptyChannels == [w \in Threads |-> <<>>]

\* Thread::new; the Status::Idle it sends is put on the channel by the caller.
Thread_new(seed_work) ==
    [pc |-> "get_work", status |-> "Idle", max_dir_size |-> 0,
     work_buf |-> WorkBuf_from(seed_work), work_slices |-> <<>>,
     newly_processed |-> 0, received |-> <<>>, yielded |-> <<>>]

\* ThreadHandle::new
ThreadHandle_new == [status |-> "Idle", in_flight |-> 0, new_dirs_processed |-> 0]

\* Executor::new: (seed.len() / NUM_THREADS).round().max(1), rounding half up.
seed_work_size(seed_len, num_threads) ==
    Max((2 * seed_len + num_threads) \div (2 * num_threads), 1)

\* Executor::new: number of seed paths drained for worker id, the workers
\* draining seed_work_size.min(seed.len()) each in order of id.
seed_work(seed_len, id) ==
    LET size == seed_work_size(seed_len, NUM_THREADS) IN
    Min(size, Max(seed_len - id * size, 0))

\* ---- worker side ------------------------------------------------------

\* The top of a batch with the status set but not sent.
begin_batch_without_send(t, c, w, slices) ==
    [t |-> [t EXCEPT !.status = "Busy", !.work_slices = slices,
                     !.newly_processed = 0, !.pc = "scan"],
     c |-> c]

\* Thread::change_status(Busy) at the top of a batch, newly_processed = 0.
begin_batch(t, c, w, slices) ==
    [t |-> [t EXCEPT !.status = "Busy", !.work_slices = slices,
                     !.newly_processed = 0, !.pc = "scan"],
     c |-> [c EXCEPT !.status[w] = Append(@, "Busy")]]

\* get_local_work that hands out the slice and leaves its paths pending.
get_local_work_keeping_pending(t, w) ==
    [wb |-> t.work_buf,
     slice |-> get_work_for_local(t.work_buf, w, DEFAULT_WORK_CHUNK_SIZE).slice]

\* Thread::get_work with local work pending: get_local_work.
get_local_work(t, w) == get_work_for_local(t.work_buf, w, DEFAULT_WORK_CHUNK_SIZE)

\* Thread::get_shared_work up to the blocking recv: Idle and the request
\* size are sent.
get_shared_work_send(t, c, w, request_size) ==
    [t |-> [t EXCEPT !.pc = "recv"],
     c |-> [c EXCEPT !.status[w] = Append(@, "Idle"),
                     !.out_of_work[w] = Append(@, request_size)]]

\* Thread::get_shared_work from the recv on: the delivery is taken.
get_shared_work_recv(t, c, w) ==
    [t |-> [t EXCEPT !.received = Append(@, Head(c.new_work[w]))],
     c |-> [c EXCEPT !.new_work[w] = Tail(@)],
     slices |-> Head(c.new_work[w])]

\* share_work that sends the carved slice whatever its length.
share_work_sending_empty(t, c, w, surplus_request) ==
    LET r == get_work_for_sharing(t.work_buf, w,
                                  Min(surplus_request, total_pending(t.work_buf)))
    IN [t |-> [t EXCEPT !.work_buf = r.wb],
        c |-> [c EXCEPT !.surplus_fulfill[w] = Append(@, r.slice)]]

\* Thread::share_work
share_work(t, c, w, surplus_request) ==
    LET r == get_work_for_sharing(t.work_buf, w,
                                  Min(surplus_request, total_pending(t.work_buf)))
    IN [t |-> [t EXCEPT !.work_buf = r.wb],
        c |-> IF WorkSlice_len(r.slice) > 0
              THEN [c EXCEPT !.surplus_fulfill[w] = Append(@, r.slice)]
              ELSE c]

\* Thread::start, the end of a batch: the last surplus request, if any, is
\* answered, then the results are sent.
finish_batch(t, c, w) ==
    LET req == c.surplus_request[w]
        s == IF req # <<>> THEN share_work(t, c, w, Last(req)) ELSE [t |-> t, c |-> c]
        res == [newly_processed |-> t.newly_processed,
                max_dir_size |-> t.max_dir_size,
                in_flight |-> total_pending(s.t.work_buf)]
    IN [t |-> [s.t EXCEPT !.pc = "get_work"],
        c |-> [s.c EXCEPT !.surplus_request[w] = <<>>,
                          !.result[w] = Append(@, res)]]

\* Thread::start, one turn of the inner loop on the first slice left: the
\* path under the cursor is scanned and its k sub-directories are appended
\* to the worker's own buffer; an exhausted slice is counted and dropped.
scan_step(t, k) ==
    LET s == Head(t.work_slices) IN
    IF s.start <= s.cursor /\ s.cursor < s.end
    THEN [t EXCEPT !.work_slices[1].cursor = @ + 1,
                   !.yielded = Append(@, <<s.owner, s.cursor>>),
                   !.work_buf = extend(@, k),
                   !.max_dir_size = Max(@, k)]
    ELSE [t EXCEPT !.work_slices = Tail(@),
                   !.newly_processed = @ + WorkSlice_len(s)]

\* ---- executor side ----------------------------------------------------

\* WorkResults::merge
WorkResults_merge(a, next) ==
    [newly_processed |-> a.newly_processed + next.newly_processed,
     max_dir_size |-> Max(a.max_dir_size, next.max_dir_size),
     in_flight |-> a.in_flight + next.in_flight]

\* impl Sum for WorkResults, on a non-empty sequence
RECURSIVE WorkResults_sum(_)
WorkResults_sum(rs) ==
    IF Len(rs) = 1 THEN rs[1]
    ELSE WorkResults_merge(WorkResults_sum(SubSeq(rs, 1, Len(rs) - 1)), Last(rs))

\* ThreadHandle::update_dirs_processed
update_dirs_processed(h, newly_processed) ==
    [h EXCEPT !.new_dirs_processed = @ + newly_processed,
              !.in_flight = IF @ < newly_processed THEN 0 ELSE @ - newly_processed]

\* ThreadHandle::drain_results; Option is a sequence of length 0 or 1.
drain_results(h, rs) ==
    IF Len(rs) > 0
    THEN LET s == WorkResults_sum(rs) IN
         [h |-> update_dirs_processed([h EXCEPT !.in_flight = s.in_flight],
                                      s.newly_processed),
          max_dir_size |-> <<s.max_dir_size>>]
    ELSE [h |-> h, max_dir_size |-> <<>>]

\* Executor::process_results, handles ix..NUM_THREADS-1
RECURSIVE process_results_from(_, _, _)
process_results_from(e, c, ix) ==
    IF ix = NUM_THREADS THEN [ex |-> e, chan |-> c]
    ELSE LET d == drain_results(e.handles[ix], c.result[ix])
             e1 == [e EXCEPT !.handles[ix] = d.h]
             e2 == IF d.max_dir_size = <<>> THEN e1
                   ELSE [e1 EXCEPT !.max_dir_size = Max(@, d.max_dir_size[1]),
                                   !.processed = @ + d.h.new_dirs_processed]
         IN process_results_from(e2, [c EXCEPT !.result[ix] = <<>>], ix + 1)

process_results(e, c) == process_results_from(e, c, 0)

\* ThreadHandle::update_status
update_status(h, msgs) == [h EXCEPT !.status = IF msgs = <<>> THEN @ ELSE Last(msgs)]

\* Executor::print_status with the print delay elapsed: is_idle on every
\* handle drains every status channel.
print_status(e, c) ==
    [ex |-> [e EXCEPT !.handles = [w \in Threads |-> update_status(e.handles[w], c.status[w])],
                      !.last_status_print = "Some"],
     chan |-> [c EXCEPT !.status = EmptyChannels]]

\* handles.iter_mut().all(|h| { h.update_status(); h.is_idle() }), from
\* handle ix on; all stops at the first handle that is not idle.
RECURSIVE all_idle_from(_, _, _)
all_idle_from(e, c, ix) ==
    IF ix = NUM_THREADS THEN [ex |-> e, chan |-> c, all |-> TRUE]
    ELSE LET h == update_status(e.handles[ix], c.status[ix])
             e1 == [e EXCEPT !.handles[ix] = h]
             c1 == [c EXCEPT !.status[ix] = <<>>]
         IN IF h.status = "Idle" THEN all_idle_from(e1, c1, ix + 1)
            ELSE [ex |-> e1, chan |-> c1, all |-> FALSE]

\* Executor::update_available_surplus
update_available_surplus(e, c) ==
    [ex |-> [e EXCEPT !.available_surplus =
                 [w \in Threads |-> e.available_surplus[w] \o c.surplus_fulfill[w]]],
     chan |-> [c EXCEPT !.surplus_fulfill = EmptyChannels]]

\* Executor::get_total_surplus
get_total_surplus(available_surplus) ==
    SumUpTo([w \in Threads |-> SlicesLen(available_surplus[w])], NUM_THREADS)

\* Executor::get_surplus_of_size, the closure over one thread's slices
RECURSIVE take_surplus(_, _)
take_surplus(slices, unfulfilled) ==
    IF slices = <<>> THEN [kept |-> <<>>, given |-> <<>>, unfulfilled |-> unfulfilled]
    ELSE LET surplus == Head(slices)
             sp == IF unfulfilled < WorkSlice_len(surplus)
                   THEN WorkSlice_split(surplus, unfulfilled)
                   ELSE [first |-> surplus, rest |-> <<>>]
             r == take_surplus(Tail(slices), unfulfilled - WorkSlice_len(sp.first))
         IN [kept |-> sp.rest \o r.kept, given |-> <<sp.first>> \o r.given,
             unfulfilled |-> r.unfulfilled]

\* Executor::get_surplus_of_size, threads ix..NUM_THREADS-1
RECURSIVE get_surplus_from(_, _, _)
get_surplus_from(available_surplus, unfulfilled, ix) ==
    IF ix = NUM_THREADS THEN [available_surplus |-> available_surplus, result |-> <<>>]
    ELSE LET r == take_surplus(available_surplus[ix], unfulfilled)
             rest == get_surplus_from([available_surplus EXCEPT ![ix] = r.kept],
                                      r.unfulfilled, ix + 1)
         IN [available_surplus |-> rest.available_surplus,
             result |-> r.given \o rest.result]

\* get_surplus_of_size that forgets the part of a slice it does not give.
get_surplus_of_size_dropping_rest(available_surplus, size) ==
    [available_surplus |-> EmptyChannels,
     result |-> get_surplus_from(available_surplus, size, 0).result]

\* Executor::get_surplus_of_size
get_surplus_of_size(available_surplus, size) ==
    get_surplus_from(available_surplus, size, 0)

\* ThreadHandle::dispatch_surplus
dispatch_surplus(c, ix, surplus) == [c EXCEPT !.new_work[ix] = Append(@, surplus)]

\* ThreadHandle::dispatch_surplus_request
dispatch_surplus_request(c, ix, request_size) ==
    [c EXCEPT !.surplus_request[ix] = Append(@, request_size)]

\* Executor::redistribute_work, the loop of the branch total_surplus > 0
RECURSIVE distribute_surplus(_, _, _, _, _, _)
distribute_surplus(e, c, in_flights, each_thread_should_have, total_surplus, ix) ==
    IF ix = NUM_THREADS THEN [ex |-> e, chan |-> c]
    ELSE IF in_flights[ix] > each_thread_should_have
         THEN IF total_surplus = 0 THEN [ex |-> e, chan |-> c]
              ELSE distribute_surplus(e, c, in_flights, each_thread_should_have,
                                      total_surplus, ix + 1)
         ELSE LET g == get_surplus_of_size(e.available_surplus, each_thread_should_have)
                  left == total_surplus - Min(Len(g.result), total_surplus)
                  e1 == [e EXCEPT !.available_surplus = g.available_surplus]
                  c1 == dispatch_surplus(c, ix, g.result)
              IN IF left = 0 THEN [ex |-> e1, chan |-> c1]
                 ELSE distribute_surplus(e1, c1, in_flights, each_thread_should_have,
                                         left, ix + 1)

\* Executor::redistribute_work, the loop of the branch total_surplus = 0
RECURSIVE request_surplus(_, _, _, _)
request_surplus(c, in_flights, each_thread_should_have, ix) ==
    IF ix = NUM_THREADS THEN c
    ELSE request_surplus(
             IF in_flights[ix] > each_thread_should_have
             THEN dispatch_surplus_request(c, ix, in_flights[ix] - each_thread_should_have)
             ELSE c,
             in_flights, each_thread_should_have, ix + 1)

\* redistribute_work that reports NoPathsInFlight when no handle has
\* anything in flight and there is no surplus.
redistribute_work_no_paths(e, c) ==
    LET in_flights == [w \in Threads |-> e.handles[w].in_flight]
        u == update_available_surplus(e, c)
    IN IF MaxUpTo(in_flights, NUM_THREADS) > 0
       THEN [ex |-> e, chan |-> c, result |-> "NoDistributionRequired"]
       ELSE IF get_total_surplus(u.ex.available_surplus) > 0
            THEN [ex |-> u.ex, chan |-> u.chan, result |-> "SurplusesDistributed"]
            ELSE [ex |-> u.ex, chan |-> u.chan, result |-> "NoPathsInFlight"]

\* Executor::redistribute_work
redistribute_work(e, c) ==
    LET in_flights == [w \in Threads |-> e.handles[w].in_flight]
        max_in_flights == MaxUpTo(in_flights, NUM_THREADS)
        u == update_available_surplus(e, c)
        each_thread_should_have == SumUpTo(in_flights, NUM_THREADS) \div NUM_THREADS
        total_surplus == get_total_surplus(u.ex.available_surplus)
    IN IF max_in_flights > 0
       THEN [ex |-> e, chan |-> c, result |-> "NoDistributionRequired"]
       ELSE IF total_surplus > 0
            THEN LET d == distribute_surplus(u.ex, u.chan, in_flights,
                                             each_thread_should_have, total_surplus, 0)
                 IN [ex |-> d.ex, chan |-> d.chan, result |-> "SurplusesDistributed"]
            ELSE [ex |-> u.ex,
                  chan |-> request_surplus(u.chan, in_flights, each_thread_should_have, 0),
                  result |-> "SurplusRequestsSent"]

\* Executor::execute, the match on redistribute_work's result.
after_redistribute(r) ==
    IF r.result = "NoPathsInFlight"
    THEN LET a == all_idle_from(r.ex, r.chan, 0) IN
         [ex |-> [a.ex EXCEPT !.is_finished = a.all, !.result = r.result], chan |-> a.chan]
    ELSE [ex |-> [r.ex EXCEPT !.result = r.result], chan |-> r.chan]

\* Executor::execute, the end of a turn of the loop: break to the joins when
\* is_finished, else sleep and go round again.  ticked records that a first
\* turn has been completed.
end_of_tick(e) ==
    [e EXCEPT !.pc = IF e.is_finished THEN "join" ELSE "process_results",
              !.ticked = TRUE]

\* ---- state and actions --------------------------------------------------

ThIdle == [w |-> [x \in Threads |-> [Thread_new(0) EXCEPT !.pc = "off"]], unseen |-> 0]

ChanIdle == [status |-> EmptyChannels, result |-> EmptyChannels,
             out_of_work |-> EmptyChannels, new_work |-> EmptyChannels,
             surplus_request |-> EmptyChannels, surplus_fulfill |-> EmptyChannels]

\* Executor::new's fields; run says which specification drives the pool.
Executor_new ==
    [handles |-> [w \in Threads |-> ThreadHandle_new], max_dir_size |-> 0,
     processed |-> 0, is_finished |-> FALSE, last_status_print |-> "None",
     available_surplus |-> EmptyChannels,
     pc |-> "process_results", result |-> "none", ticked |-> FALSE, run |-> "off"]

ExIdle == Executor_new

ExecInstall(w, r) ==
    /\ th' = [th EXCEPT !.w[w] = r.t]
    /\ chan' = r.c

\* Thread::start: one step of worker w's loop.  The loop has no exit.
Thread_start(w) ==
    LET t == th.w[w] IN
    /\ ex.run = "execute"
    /\ CASE t.pc = "get_work" ->
              IF empty_pending(t.work_buf)
              THEN \E request_size \in 1..MaxRequest :
                       ExecInstall(w, get_shared_work_send(t, chan, w, request_size))
              ELSE LET r == get_local_work(t, w) IN
                   ExecInstall(w, begin_batch([t EXCEPT !.work_buf = r.wb], chan, w,
                                              <<r.slice>>))
         [] t.pc = "recv" ->
              /\ chan.new_work[w] # <<>>
              /\ LET r == get_shared_work_recv(t, chan, w) IN
                 ExecInstall(w, begin_batch(r.t, r.c, w, r.slices))
         [] t.pc = "scan" ->
              IF t.work_slices = <<>>
              THEN ExecInstall(w, finish_batch(t, chan, w))
              ELSE \E k \in 0..MaxChildren :
                       /\ k <= th.unseen
                       /\ Head(t.work_slices).cursor >= Head(t.work_slices).end => k = 0
                       /\ th' = [th EXCEPT !.w[w] = scan_step(t, k), !.unseen = @ - k]
                       /\ chan' = chan
         [] OTHER -> FALSE
    /\ UNCHANGED <<sem, hv, work_buf, lk, ex>>

\* Executor::execute: one step of the scheduling loop, then the joins.  A
\* join returns once the worker's thread has ended.
Executor_execute ==
    /\ ex.run = "execute"
    /\ CASE ex.pc = "process_results" ->
              LET r == process_results(ex, chan) IN
              /\ ex' = [r.ex EXCEPT !.pc = "redistribute_work"]
              /\ chan' = r.chan
         [] ex.pc = "redistribute_work" ->
              LET r == after_redistribute(redistribute_work(ex, chan)) IN
              /\ ex' = [r.ex EXCEPT !.pc = "print_status"]
              /\ chan' = r.chan
         [] ex.pc = "print_status" ->
              \E elapsed \in BOOLEAN :
                  /\ ex.last_status_print = "None" => elapsed
                  /\ LET r == IF elapsed THEN print_status(ex, chan)
                              ELSE [ex |-> ex, chan |-> chan]
                     IN /\ ex' = end_of_tick(r.ex)
                        /\ chan' = r.chan
         [] ex.pc = "join" ->
              /\ \A w \in Threads : th.w[w].pc = "exited"
              /\ ex' = [ex EXCEPT !.pc = "returned"]
              /\ chan' = chan
         [] OTHER -> FALSE
    /\ UNCHANGED <<sem, hv, work_buf, lk, th>>

ExecNext == (\E w \in Threads : Thread_start(w)) \/ Executor_execute

\* ---- the surplus transfer on its own ------------------------------------
\* The operations of a transfer applied in any order, their arguments drawn
\* from small sets.

SurplusDeliveries(w) == Len(chan.new_work[w]) + Len(th.w[w].received)

\* ThreadHandle::dispatch_surplus_request(request_size) on handle ix
SurplusRequest(ix, request_size) ==
    /\ ex.run = "transfer"
    /\ Len(chan.surplus_request[ix]) < MaxQueued
    /\ chan' = dispatch_surplus_request(chan, ix, request_size)
    /\ UNCHANGED <<sem, hv, work_buf, lk, th, ex>>

\* Thread::start, the surplus check at the end of a batch
SurplusShare(w) ==
    /\ ex.run = "transfer"
    /\ chan.surplus_request[w] # <<>>
    /\ Len(th.w[w].work_buf.shared_with_others) < MaxShares
    /\ LET r == share_work(th.w[w], chan, w, Last(chan.surplus_request[w])) IN
       /\ th' = [th EXCEPT !.w[w] = r.t]
       /\ chan' = [r.c EXCEPT !.surplus_request[w] = <<>>]
    /\ UNCHANGED <<sem, hv, work_buf, lk, ex>>

\* Executor::redistribute_work
SurplusRedistribute ==
    /\ ex.run = "transfer"
    /\ \A w \in Threads : SurplusDeliveries(w) < MaxDeliveries
    /\ LET r == redistribute_work(ex, chan) IN
       /\ ex' = [r.ex EXCEPT !.result = r.result]
       /\ chan' = r.chan
    /\ UNCHANGED <<sem, hv, work_buf, lk, th>>

\* Executor::update_available_surplus
SurplusCollect ==
    /\ ex.run = "transfer"
    /\ LET r == update_available_surplus(ex, chan) IN
       /\ ex' = r.ex
       /\ chan' = r.chan
    /\ UNCHANGED <<sem, hv, work_buf, lk, th>>

\* get_surplus_of_size(size) followed by dispatch_surplus on handle ix
SurplusDispatch(ix, size) ==
    /\ ex.run = "transfer"
    /\ SurplusDeliveries(ix) < MaxDeliveries
    /\ LET g == get_surplus_of_size(ex.available_surplus, size) IN
       /\ ex' = [ex EXCEPT !.available_surplus = g.available_surplus]
       /\ chan' = dispatch_surplus(chan, ix, g.result)
    /\ UNCHANGED <<sem, hv, work_buf, lk, th>>

\* Thread::get_shared_work, the recv
SurplusRecv(w) ==
    /\ ex.run = "transfer"
    /\ chan.new_work[w] # <<>>
    /\ LET r == get_shared_work_recv(th.w[w], chan, w) IN
       /\ th' = [th EXCEPT !.w[w] = r.t]
       /\ chan' = r.c
    /\ UNCHANGED <<sem, hv, work_buf, lk, ex>>

\* WorkBuf::extend by the worker with n newly discovered paths
SurplusExtend(w, n) ==
    /\ ex.run = "transfer"
    /\ th.w[w].work_buf.len + n <= MaxSurplusBuf
    /\ th' = [th EXCEPT !.w[w].work_buf = extend(@, n)]
    /\ UNCHANGED <<sem, hv, work_buf, lk, chan, ex>>

SurplusNext ==
    \/ \E ix \in Threads, request_size \in 1..MaxRequest : SurplusRequest(ix, request_size)
    \/ \E w \in Threads : SurplusShare(w)
    \/ SurplusRedistribute
    \/ SurplusCollect
    \/ \E ix \in Threads, size \in 0..MaxRequest : SurplusDispatch(ix, size)
    \/ \E w \in Threads : SurplusRecv(w)
    \/ \E w \in Threads, n \in 1..MaxExtend : SurplusExtend(w, n)

(***************************************************************************)
(* WorkSlice::split as a function of the slice and the split size.  The    *)
(* slice is any range of a worker's backing buffer, of either source, its  *)
(* cursor anywhere the iterator can have left it; work_buf.slice is the    *)
(* slice the next call consumes and work_buf.calls records every call:     *)
(* the slice it consumed, its argument and the pair it returned.           *)
(***************************************************************************)
MaxSliceStart == 2  \* a drawn slice starts at an index in 0..MaxSliceStart
MaxSliceLen == 3    \* a drawn slice covers 0..MaxSliceLen paths
MaxSplitSize == 4   \* split sizes are drawn from 0..MaxSplitSize
MaxSplits == 2      \* split calls per run

SplitCall(split_size) ==
    /\ work_buf.active = "split"
    /\ Len(work_buf.calls) < MaxSplits
    /\ LET r == WorkSlice_split(work_buf.slice, split_size) IN
       work_buf' = [work_buf EXCEPT
           !.calls = Append(@, [self |-> work_buf.slice, split_size |-> split_size,
                                first |-> r.first, rest |-> r.rest]),
           !.slice = IF r.rest = <<>> THEN r.first ELSE r.rest[1]]
    /\ UNCHANGED <<sem, hv, lk, th, chan, ex>>

SplitNext == \E split_size \in 0..MaxSplitSize : SplitCall(split_size)

SplitInit ==
    /\ \E source \in {"Local", "Shared"}, owner \in 0..1, start \in 0..MaxSliceStart,
          len \in 0..MaxSliceLen, cursor \in 0..(MaxSliceStart + MaxSliceLen) :
         /\ start <= cursor /\ cursor <= start + len
         /\ work_buf = [slice |-> [WorkSlice_new(source, owner, start, start + len)
                                     EXCEPT !.cursor = cursor],
                        calls |-> <<>>, active |-> "split"]
    /\ sem = SemIdle /\ hv = HvIdle /\ lk = LkIdle
    /\ th = ThIdle /\ chan = ChanIdle /\ ex = ExIdle

SpecSplit == SplitInit /\ [][SplitNext]_vars

(***************************************************************************)
(* A worker consuming one slice: Iterator::next for WorkSlice and the body *)
(* of the inner loop of Thread::start.  The filesystem is the environment: *)
(* read_dir of a path fails or yields entries, and each entry is a         *)
(* directory, something else, an entry that failed to be read, or an entry *)
(* whose metadata cannot be read.  th.visited records the index handed to  *)
(* read_dir by each call of next, th.reads what the filesystem answered.   *)
(***************************************************************************)
MaxEntries == 1     \* entries yielded by one read_dir: 0..MaxEntries
MaxScanStart == 1   \* a consumed slice starts at an index in 0..MaxScanStart
MaxScanLen == 2     \* a consumed slice covers 0..MaxScanLen paths

EntryKinds == {"dir", "other", "entry_err", "meta_err"}

DirReads ==
    {[ok |-> FALSE, entries |-> <<>>]} \cup
    {[ok |-> TRUE, entries |-> es] : es \in UNION {[1..n -> EntryKinds] : n \in 0..MaxEntries}}

RECURSIVE CountKinds(_, _)
CountKinds(entries, kinds) ==
    IF entries = <<>> THEN 0
    ELSE (IF Head(entries) \in kinds THEN 1 ELSE 0) + CountKinds(Tail(entries), kinds)

\* Iterator::next with the cursor left where it is when read_dir fails.
WorkSlice_next_stuck_on_error(s, read) ==
    IF s.start <= s.cursor /\ s.cursor < s.end
    THEN [slice |-> IF read.ok THEN [s EXCEPT !.cursor = @ + 1] ELSE [s EXCEPT !.cursor = s.end],
          item |-> <<[path |-> s.cursor, read |-> read]>>]
    ELSE [slice |-> s, item |-> <<>>]

\* Iterator::next for WorkSlice; read is what read_dir answers for the path
\* under the cursor.  The Option returned is a sequence of length 0 or 1.
WorkSlice_next(s, read) ==
    IF s.start <= s.cursor /\ s.cursor < s.end
    THEN [slice |-> [s EXCEPT !.cursor = @ + 1],
          item |-> <<[path |-> s.cursor, read |-> read]>>]
    ELSE [slice |-> s, item |-> <<>>]

\* The ErrorDirs pushed while the entries of one directory are filtered, in
\* the order of the entries.
RECURSIVE entry_errors(_, _, _)
entry_errors(path, entries, i) ==
    IF i > Len(entries) THEN <<>>
    ELSE (IF entries[i] \in {"entry_err", "meta_err"}
          THEN <<[path |-> path, entry |-> i, err |-> entries[i]] >>
          ELSE <<>>) \o entry_errors(path, entries, i + 1)

\* Thread::start, the body of the inner loop for one item returned by next.
scan_item(t, item) ==
    IF item.read.ok
    THEN IF Len(item.read.entries) > 0
         THEN [t EXCEPT !.errored = @ \o entry_errors(item.path, item.read.entries, 1),
                        !.buf_len = @ + CountKinds(item.read.entries, {"dir"}),
                        !.max_dir_size =
                            Max(@, CountKinds(item.read.entries, {"dir", "other"}))]
         ELSE t
    ELSE [t EXCEPT !.errored = Append(@, [path |-> item.path, entry |-> 0,
                                          err |-> "read_err"])]

\* One turn of the inner loop: next, then the body or the break.
ScanStep(read) ==
    /\ th.pc = "scan_slice"
    /\ LET r == WorkSlice_next(th.slice, read) IN
       IF r.item = <<>>
       THEN th' = [th EXCEPT !.pc = "slice_done",
                             !.newly_processed = @ + WorkSlice_len(th.slice)]
       ELSE th' = [scan_item(th, r.item[1]) EXCEPT
                       !.slice = r.slice,
                       !.visited = Append(@, r.item[1].path),
                       !.reads = Append(@, read)]
    /\ UNCHANGED <<sem, hv, work_buf, lk, chan, ex>>

ScanNext == \E read \in DirReads : ScanStep(read)

ScanInit ==
    /\ \E source \in {"Local", "Shared"}, start \in 0..MaxScanStart, len \in 0..MaxScanLen :
         th = [pc |-> "scan_slice", slice |-> WorkSlice_new(source, 0, start, start + len),
               buf_len |-> start + len, errored |-> <<>>, max_dir_size |-> 0,
               newly_processed |-> 0, visited |-> <<>>, reads |-> <<>>]
    /\ sem = SemIdle /\ hv = HvIdle /\ work_buf = WorkBufIdle /\ lk = LkIdle
    /\ chan = ChanIdle /\ ex = ExIdle

SpecScan == ScanInit /\ [][ScanNext]_vars

(***************************************************************************)
(* Channel failures in Executor::execute.  chan.print is what the print    *)
(* receiver would answer: "None" (not verbose, no receiver), "Empty",      *)
(* "Message", or "Disconnected" (every Printer's sender dropped);          *)
(* chan.gone is the set of workers whose receiving ends have been dropped; *)
(* chan.new_work counts the deliveries accepted by each worker's channel.  *)
(* ex.pc is execute's position and ex.result how it ended: "Err(..)" is    *)
(* the value execute returned, "panic(..)" the payload of the panic that   *)
(* unwound it.                                                             *)
(***************************************************************************)
MaxErrTicks == 2   \* turns of execute's loop in a run with failing channels

\* Executor::handle_print_requests, for each answer of try_recv.
handle_print_requests(print) ==
    CASE print = "None" -> [print |-> print, panic |-> <<>>]
      [] print = "Empty" -> [print |-> print, panic |-> <<>>]
      [] print = "Message" -> [print |-> "Empty", panic |-> <<>>]
      [] print = "Disconnected" -> [print |-> print, panic |-> <<"PrintSenderDisconnected">>]

\* One step of execute: handle_print_requests, or redistribute_work sending
\* (or not) a delivery or a request to handle ix; a failed send is turned
\* into WorkError::StatusRequestSendError by From<SendError<T>> and returned
\* through the two ? operators.
ErrExecute(ix, sends) ==
    /\ ex.run = "errors"
    /\ \/ /\ ex.pc = "handle_print_requests"
          /\ LET r == handle_print_requests(chan.print) IN
             /\ chan' = [chan EXCEPT !.print = r.print]
             /\ ex' = IF r.panic = <<>> THEN [ex EXCEPT !.pc = "redistribute_work"]
                      ELSE [ex EXCEPT !.pc = "panicked",
                                      !.result = "panic(" \o r.panic[1] \o ")"]
       \/ /\ ex.pc = "redistribute_work"
          /\ ex.ticks < MaxErrTicks
          /\ IF sends /\ ix \in chan.gone
             THEN /\ ex' = [ex EXCEPT !.pc = "returned",
                                      !.result = "Err(StatusRequestSendError)"]
                  /\ chan' = chan
             ELSE /\ ex' = [ex EXCEPT !.pc = "handle_print_requests", !.ticks = @ + 1]
                  /\ chan' = IF sends THEN [chan EXCEPT !.new_work[ix] = @ + 1] ELSE chan
    /\ UNCHANGED <<sem, hv, work_buf, lk, th>>

\* The other ends of the channels: a worker's thread ends and drops its
\* receivers, a Printer sends its lines, the last print sender is dropped.
ErrEnv(w, print) ==
    /\ ex.run = "errors"
    /\ ex.pc \in {"handle_print_requests", "redistribute_work"}
    /\ \/ /\ w \notin chan.gone
          /\ chan' = [chan EXCEPT !.gone = @ \cup {w}]
       \/ /\ chan.print = "Empty" /\ print \in {"Message", "Disconnected"}
          /\ chan' = [chan EXCEPT !.print = print]
    /\ UNCHANGED <<sem, hv, work_buf, lk, th, ex>>

ErrNext ==
    \/ \E ix \in Threads, sends \in BOOLEAN : ErrExecute(ix, sends)
    \/ \E w \in Threads, print \in {"Message", "Disconnected"} : ErrEnv(w, print)

\* Executor::new(seed, verbose) for either value of verbose, execute entered.
ErrInit ==
    /\ \E verbose \in BOOLEAN :
         chan = [print |-> IF verbose THEN "Empty" ELSE "None", gone |-> {},
                 new_work |-> [w \in Threads |-> 0]]
    /\ ex = [run |-> "errors", pc |-> "handle_print_requests", result |-> "none",
             ticks |-> 0]
    /\ sem = SemIdle /\ hv = HvIdle /\ work_buf = WorkBufIdle /\ lk = LkIdle
    /\ th = ThIdle

SpecErr == ErrInit /\ [][ErrNext]_vars

(***************************************************************************)
(* A worker on its own: the worker runs Thread::start and the              *)
(* executor's side of the channels is the environment, which may send any  *)
(* delivery or surplus request to the worker and drains nothing, so that   *)
(* chan.status, chan.out_of_work and chan.result hold everything a worker  *)
(* has sent so far.                                                        *)
(***************************************************************************)
\* ThreadHandle::dispatch_surplus on handle ix with the slices drawn: none,
\* or one Shared slice of n paths of worker o's buffer.
WorkerDeliver(ix, o, n) ==
    /\ ex.run = "execute"
    /\ SurplusDeliveries(ix) < MaxDeliveries
    /\ chan' = dispatch_surplus(chan, ix,
                   IF n = 0 THEN <<>> ELSE <<WorkSlice_new("Shared", o, 0, n)>>)
    /\ UNCHANGED <<sem, hv, work_buf, lk, th, ex>>

\* ThreadHandle::dispatch_surplus_request(request_size) on handle ix, while
\* the worker has carved fewer than MaxShares slices.
WorkerRequest(ix, request_size) ==
    /\ ex.run = "execute"
    /\ Len(chan.surplus_request[ix]) < MaxQueued
    /\ Len(th.w[ix].work_buf.shared_with_others) < MaxShares
    /\ chan' = dispatch_surplus_request(chan, ix, request_size)
    /\ UNCHANGED <<sem, hv, work_buf, lk, th, ex>>

\* Worker 0 is the worker that runs: without the executor the workers do
\* not act on one another, and worker 0 is handed the largest share of the
\* seed.
WorkerNext ==
    \/ Thread_start(0)
    \/ \E o \in Threads, n \in 0..MaxRequest : WorkerDeliver(0, o, n)
    \/ \E request_size \in 1..MaxRequest : WorkerRequest(0, request_size)
(***************************************************************************)
(* Executor::new as it hands out the seed, with the thread count of the    *)
(* build.  ex.seed is what is left of the seed vector, its paths numbered  *)
(* 1..given; ex.handles holds the seed_work of the handles built so far.   *)
(***************************************************************************)
BUILD_NUM_THREADS == 8  \* const NUM_THREADS
MaxBuildSeed == 12      \* seed vectors hold 0..MaxBuildSeed paths

\* Executor::new, one turn of the map over 0..NUM_THREADS: the next handle
\* is built on the paths drained from the front of the seed.
SeedNext ==
    /\ ex.run = "new"
    /\ Len(ex.handles) < BUILD_NUM_THREADS
    /\ LET n == Min(ex.seed_work_size, Len(ex.seed)) IN
       ex' = [ex EXCEPT !.seed = SubSeq(@, n + 1, Len(@)),
                        !.handles = Append(@, SubSeq(ex.seed, 1, n))]
    /\ UNCHANGED <<sem, hv, work_buf, lk, th, chan>>

SeedInit ==
    /\ \E seed_len \in 0..MaxBuildSeed :
         ex = [run |-> "new", given |-> seed_len, seed |-> [p \in 1..seed_len |-> p],
               seed_work_size |-> seed_work_size(seed_len, BUILD_NUM_THREADS),
               handles |-> <<>>]
    /\ sem = SemIdle /\ hv = HvIdle /\ work_buf = WorkBufIdle /\ lk = LkIdle
    /\ th = ThIdle /\ chan = ChanIdle

SpecSeed == SeedInit /\ [][SeedNext]_vars
(***************************************************************************)
(* disk.rs: TaskCountVar, a counter of tickets behind a mutex with a       *)
(* condition variable.  lk.counter is the usize counter; a value that has  *)
(* wrapped below zero is written as the negative number it is congruent to *)
(* modulo 2^64, so usize::MAX is -1.  lk.issued counts the notify_all      *)
(* calls and lk.returned the wait_for_ticket calls that have returned;     *)
(* the callers are threads 1..NWaiters.                                    *)
(***************************************************************************)
\* TaskCountVar::notify_all: the counter is incremented under the mutex and
\* every thread waiting on the condition variable is woken.
TaskCountVar_notify_all ==
    /\ lk.run = "ticket"
    /\ lk.issued < MaxNotifies
    /\ lk' = [lk EXCEPT !.counter = @ + 1,
                        !.issued = @ + 1,
                        !.pc = [t \in (1..NWaiters) |->
                                   IF lk.pc[t] = "waiting" THEN "woken" ELSE lk.pc[t]]]
    /\ UNCHANGED <<sem, hv, work_buf, th, chan, ex>>

\* TaskCountVar::wait_for_ticket by thread t.  Condvar::wait_while waits
\* for as long as its condition holds, and the condition passed is
\* counter > 0 on an unsigned counter, i.e. counter # 0.  The decrement of a
\* counter that is 0 panics with overflow checks and wraps without.
TaskCountVar_wait_for_ticket(t) ==
    /\ lk.run = "ticket"
    /\ LET waits == lk.counter # 0
           decremented ==
               IF lk.counter = 0 /\ lk.overflow_checks
               THEN [lk EXCEPT !.pc[t] = "panicked"]
               ELSE [lk EXCEPT !.counter = @ - 1, !.returned = @ + 1, !.pc[t] = "idle"]
       IN CASE lk.pc[t] = "idle" ->
                 /\ lk.calls[t] < MaxCalls
                 /\ lk' = IF lk.counter = 0 /\ waits
                          THEN [lk EXCEPT !.calls[t] = @ + 1, !.pc[t] = "waiting"]
                          ELSE [decremented EXCEPT !.calls[t] = @ + 1]
            [] lk.pc[t] = "woken" ->
                 lk' = IF waits THEN [lk EXCEPT !.pc[t] = "waiting"] ELSE decremented
            [] OTHER -> FALSE
    /\ UNCHANGED <<sem, hv, work_buf, th, chan, ex>>

TicketNext ==
    \/ TaskCountVar_notify_all
    \/ \E t \in (1..NWaiters) : TaskCountVar_wait_for_ticket(t)

\* TaskCountVar::default(): the counter is 0 and no thread waits.
TicketInit ==
    /\ \E oc \in BOOLEAN :
         lk = [run |-> "ticket", counter |-> 0, overflow_checks |-> oc,
               issued |-> 0, returned |-> 0,
               pc |-> [t \in (1..NWaiters) |-> "idle"],
               calls |-> [t \in (1..NWaiters) |-> 0]]
    /\ sem = SemIdle /\ hv = HvIdle /\ work_buf = WorkBufIdle
    /\ th = ThIdle /\ chan = ChanIdle /\ ex = ExIdle

SpecTicket == TicketInit /\ [][TicketNext]_vars
(***************************************************************************)
(* shared_buf.rs: SharedBuf, a vector with a read cursor behind a mutex    *)
(* and the condition variable read_ready (QBuf::read in qbuf.rs has the    *)
(* same body).  The items are numbered by their index, so hv.len stands    *)
(* for the vector; hv.pc is each reader's position, hv.at_most the         *)
(* argument of the read it is in, and hv.reads records every read that     *)
(* returned: the unread count it found on entry, its argument and its      *)
(* result.  An Option is a sequence of length 0 or 1; the callers are      *)
(* threads 1..NHolders.                                                    *)
(***************************************************************************)
\* SharedBuf::write with n items: CursorBuf::write, then notify_all wakes
\* the readers waiting on read_ready.
SharedBuf_write(n) ==
    /\ hv.run = "shared_buf"
    /\ hv.len + n <= MaxBufLen
    /\ hv' = [hv EXCEPT !.len = @ + n,
                        !.pc = [t \in 1..NHolders |->
                                   IF hv.pc[t] = "waiting" THEN "woken" ELSE hv.pc[t]]]
    /\ UNCHANGED <<sem, work_buf, lk, th, chan, ex>>

\* SharedBuf::read(at_most) by thread t.  wait_timeout_while waits for as
\* long as its condition holds or until the timeout; the condition passed
\* is reads_available() > 0.  timed_out is whether the 50 microseconds ran
\* out during a wait.
SharedBuf_read(t, at_most, timed_out) ==
    /\ hv.run = "shared_buf"
    /\ LET reads_available == IF hv.len > hv.cursor THEN hv.len - hv.cursor ELSE 0
           waits == reads_available > 0
           arg == IF hv.pc[t] = "idle" THEN at_most ELSE hv.at_most[t]
           found == IF hv.pc[t] = "idle" THEN reads_available ELSE 0
           until == IF arg = <<>> THEN hv.len ELSE Min(hv.cursor + arg[1], hv.len)
           returned(result) ==
               [hv EXCEPT !.pc[t] = "idle",
                          !.reads = Append(@, [found |-> found, at_most |-> arg,
                                               result |-> result])]
           \* CursorBuf::read, then notify_all
           read == [returned(<<[from |-> hv.cursor, until |-> until]>>)
                       EXCEPT !.cursor = until,
                              !.pc = [u \in 1..NHolders |->
                                         IF u # t /\ hv.pc[u] = "waiting"
                                         THEN "woken" ELSE IF u = t THEN "idle" ELSE hv.pc[u]]]
       IN CASE hv.pc[t] = "idle" ->
                 /\ Len(hv.reads) < MaxCalls
                 /\ ~timed_out
                 /\ hv' = IF reads_available = 0 /\ waits
                          THEN [hv EXCEPT !.pc[t] = "waiting", !.at_most[t] = at_most]
                          ELSE read
            [] hv.pc[t] = "waiting" ->
                 /\ timed_out /\ at_most = <<>>
                 /\ hv' = returned(<<>>)
            [] hv.pc[t] = "woken" ->
                 /\ at_most = <<>>
                 /\ hv' = IF ~waits THEN read
                          ELSE IF timed_out THEN returned(<<>>)
                          ELSE [hv EXCEPT !.pc[t] = "waiting"]
            [] OTHER -> FALSE
    /\ UNCHANGED <<sem, work_buf, lk, th, chan, ex>>

BufNext ==
    \/ \E n \in 1..MaxExtend : SharedBuf_write(n)
    \/ \E t \in 1..NHolders, timed_out \in BOOLEAN,
          at_most \in {<<>>} \cup {<<n>> : n \in 1..MaxClaimSize} :
           SharedBuf_read(t, at_most, timed_out)

\* SharedBuf::new(init) with 0..MaxExtend items, nothing read.
BufInit ==
    /\ \E n \in 0..MaxExtend :
         hv = [run |-> "shared_buf", len |-> n, cursor |-> 0,
               pc |-> [t \in 1..NHolders |-> "idle"],
               at_most |-> [t \in 1..NHolders |-> <<>>],
               reads |-> <<>>]
    /\ sem = SemIdle /\ work_buf = WorkBufIdle /\ lk = LkIdle
    /\ th = ThIdle /\ chan = ChanIdle /\ ex = ExIdle

SpecBuf == BufInit /\ [][BufNext]_vars

(***************************************************************************)
(* Specifications, one per component.                                      *)
(***************************************************************************)
\* The semaphore as constructed by Counter::new(limit), in either draft and
\* either build profile.
SemInit ==
    /\ \E d \in Drafts, oc \in BOOLEAN, l \in 1..MaxLimit :
         sem = [draft |-> d, overflow_checks |-> oc, curr |-> Counter_new(l).curr,
                limit |-> Counter_new(l).limit, panicked |-> FALSE, live |-> 0,
                trace |-> <<>>]
    /\ hv = HvIdle /\ work_buf = WorkBufIdle /\ lk = LkIdle
    /\ th = ThIdle /\ chan = ChanIdle /\ ex = ExIdle

SpecSem == SemInit /\ [][SemNext]_vars

\* try_lock and unlock as functions of the counter: the counter they are
\* applied to is drawn from all values with 0 <= curr <= limit.
SemFnInit ==
    /\ \E d \in Drafts, oc \in BOOLEAN, l \in 1..MaxLimit, c \in 0..MaxLimit :
         /\ c <= l
         /\ sem = [draft |-> d, overflow_checks |-> oc, curr |-> c, limit |-> l,
                   panicked |-> FALSE, live |-> c, trace |-> <<>>]
    /\ hv = HvIdle /\ work_buf = WorkBufIdle /\ lk = LkIdle
    /\ th = ThIdle /\ chan = ChanIdle /\ ex = ExIdle

SpecSemFn == SemFnInit /\ [][SemNext]_vars

HistInit ==
    /\ hv = [inner |-> HistoryVec_default.inner, average |-> HistoryVec_default.average,
             pushed |-> <<>>, active |-> TRUE]
    /\ sem = SemIdle /\ work_buf = WorkBufIdle /\ lk = LkIdle
    /\ th = ThIdle /\ chan = ChanIdle /\ ex = ExIdle

SpecHist == HistInit /\ [][HistNext]_vars

WorkBufInit ==
    /\ \E n \in 0..MaxSeed :
         work_buf = [len |-> WorkBuf_from(n).len,
                     pending_from |-> WorkBuf_from(n).pending_from,
                     shared_with_others |-> WorkBuf_from(n).shared_with_others,
                     claims |-> <<>>, active |-> TRUE, buf |-> NewPaths(0, n),
                     last_op |-> "none", last_size |-> 0]
    /\ sem = SemIdle /\ hv = HvIdle /\ lk = LkIdle
    /\ th = ThIdle /\ chan = ChanIdle /\ ex = ExIdle

SpecWorkBuf == WorkBufInit /\ [][WorkBufNext]_vars

\* AcLock::new(limit) with every holder owning a guard and every waiter about
\* to call wait_for_access; the semaphore is full: limit = number of guards.
LockInit ==
    /\ \E oc \in BOOLEAN :
         lk = [curr |-> Counter_new(NHolders).curr, limit |-> Counter_new(NHolders).limit,
               overflow_checks |-> oc, parked |-> FALSE, queue |-> <<>>,
               pc |-> [t \in LkThreads |-> IF t \in Holders THEN "holding" ELSE "call"],
               seen |-> {}]
    /\ sem = SemIdle /\ hv = HvIdle /\ work_buf = WorkBufIdle
    /\ th = ThIdle /\ chan = ChanIdle /\ ex = ExIdle

\* Every thread that can take a step eventually takes it (OS threads).
SpecLock == LockInit /\ [][LockNext]_vars /\ \A t \in LkThreads : WF_vars(LkStep(t))

\* The pool as Executor::new leaves it: every worker built by Thread::new
\* on its share of the seed, its Status::Idle already sent, its thread
\* spawned; the executor about to enter execute's loop.
ExecInit ==
    /\ \E seed_len \in 0..MaxSeedPaths, unseen \in 0..MaxUnseen :
         th = [w |-> [id \in Threads |-> Thread_new(seed_work(seed_len, id))],
               unseen |-> unseen]
    /\ chan = [ChanIdle EXCEPT !.status = [w \in Threads |-> <<"Idle">>]]
    /\ ex = [Executor_new EXCEPT !.run = "execute"]
    /\ sem = SemIdle /\ hv = HvIdle /\ work_buf = WorkBufIdle /\ lk = LkIdle

\* The executor's thread and every worker's thread keep being scheduled.
SpecExec ==
    /\ ExecInit
    /\ [][ExecNext]_vars
    /\ WF_vars(Executor_execute)
    /\ \A w \in Threads : WF_vars(Thread_start(w))

\* The surplus transfer: every worker holds a buffer of pending paths and
\* the executor is as Executor::new leaves it.
SurplusInit ==
    /\ \E len \in [Threads -> 0..MaxSurplusBuf] :
         th = [w |-> [id \in Threads |-> Thread_new(len[id])], unseen |-> 0]
    /\ chan = ChanIdle
    /\ ex = [Executor_new EXCEPT !.run = "transfer"]
    /\ sem = SemIdle /\ hv = HvIdle /\ work_buf = WorkBufIdle /\ lk = LkIdle

SpecSurplus == SurplusInit /\ [][SurplusNext]_vars

\* A lock of either draft with any counter, any parked flag and any number of
\* threads parked on it.
NotifyInit ==
    /\ \E d \in Drafts, oc \in BOOLEAN, l \in 1..NHolders, c \in 0..NHolders,
          flag \in BOOLEAN, n \in 0..NWaiters :
         /\ c <= l
         /\ lk = [draft |-> d, curr |-> c, limit |-> l, overflow_checks |-> oc,
                  parked |-> flag, queue |-> FirstWaiters(n),
                  pc |-> [t \in Waiters |-> IF t <= NHolders + n THEN "parked" ELSE "idle"],
                  seen |-> {}, notes |-> <<>>]
    /\ sem = SemIdle /\ hv = HvIdle /\ work_buf = WorkBufIdle
    /\ th = ThIdle /\ chan = ChanIdle /\ ex = ExIdle

SpecNotify == NotifyInit /\ [][NotifyNext]_vars

\* One thread about to call wait_for_access_until directly ("until") or the
\* unbounded wrapper ("wrapper") on a lock of either draft with any counter.
WaitInit ==
    /\ \E d \in Drafts, oc \in BOOLEAN, l \in 1..MaxLimit, c \in 0..MaxLimit,
          mode \in {"until", "wrapper"} :
         /\ c <= l
         /\ lk = [draft |-> d, curr |-> c, limit |-> l, overflow_checks |-> oc,
                  parked |-> FALSE, queue |-> <<>>, pc |-> "call", seen |-> {},
                  mode |-> mode, has_timeout |-> FALSE, calls |-> <<>>]
    /\ sem = SemIdle /\ hv = HvIdle /\ work_buf = WorkBufIdle
    /\ th = ThIdle /\ chan = ChanIdle /\ ex = ExIdle

SpecWait == WaitInit /\ [][WaitNext]_vars

\* A lock of either draft with every holder owning a guard built by
\* RawLockGuard::new / PredicateLockGuard::new, and any number of threads
\* parked on it.
GuardInit ==
    /\ \E d \in Drafts, oc \in BOOLEAN, n \in 0..NWaiters :
         lk = [draft |-> d, curr |-> Counter_new(NHolders).curr,
               limit |-> Counter_new(NHolders).limit, overflow_checks |-> oc,
               parked |-> FALSE, queue |-> FirstWaiters(n), seen |-> {},
               pc |-> [t \in Holders |-> "holding"],
               guard |-> [t \in Holders |-> "Some"],
               exit |-> [t \in Holders |-> "none"],
               events |-> [t \in Holders |-> <<>>]]
    /\ sem = SemIdle /\ hv = HvIdle /\ work_buf = WorkBufIdle
    /\ th = ThIdle /\ chan = ChanIdle /\ ex = ExIdle

SpecGuard == GuardInit /\ [][GuardNext]_vars

\* The workers as Executor::new leaves them, the executor's ends of the
\* channels driven by the environment.
SpecWorker == ExecInit /\ [][WorkerNext]_vars

(***************************************************************************)
(* Properties.                                                             *)
(***************************************************************************)

\* C1: semaphore bound.  On one counting semaphore with limit L, the number
\* of try_lock calls that returned success and have not yet been matched by
\* an unlock never exceeds L.
C1_SemaphoreBound == sem.live <= sem.limit

\* C2: no lost wakeup.  A waiter that is parked when a holder has released
\* its guard (unlock, then notify_one/notify_all) eventually returns from
\* park.
C2_NoLostWakeup ==
    \A t \in Waiters : [](t \in lk.seen => <>(lk.pc[t] # "parked"))

\* Every worker has sent Idle and blocks in recv with nothing pending, and
\* no work or surplus is on its way anywhere.
AllIdleNothingInFlight ==
    \A w \in Threads :
        /\ th.w[w].pc = "recv"
        /\ total_pending(th.w[w].work_buf) = 0
        /\ chan.new_work[w] = <<>>
        /\ chan.surplus_fulfill[w] = <<>>
        /\ ex.available_surplus[w] = <<>>

\* C3: termination.  Once every worker reports Idle with nothing in flight
\* and nothing pending, execute eventually sets is_finished, leaves its loop,
\* joins the workers and returns.
C3_Termination == (ex.run = "execute" /\ AllIdleNothingInFlight) ~> (ex.pc = "returned")

TransferSlices ==
    ConcatUpTo([w \in Threads |-> chan.surplus_fulfill[w] \o ex.available_surplus[w]
                                  \o Flatten(chan.new_work[w])
                                  \o Flatten(th.w[w].received)], NUM_THREADS)

\* The slices of ts that hold path i of worker d's buffer.
HoldersOf(ts, d, i) ==
    {j \in 1..Len(ts) : ts[j].owner = d /\ ts[j].start <= i /\ i < ts[j].end}

\* The paths worker d has carved into Shared slices.
Carved(d) ==
    LET sw == th.w[d].work_buf.shared_with_others IN
    UNION {sw[a][1]..(sw[a][2] - 1) : a \in 1..Len(sw)}

\* C5: redistribution conservation.  Every path carved into a Shared slice
\* is held in exactly one place of the transfer (a channel, available_surplus
\* or the worker it was delivered to), no other path is held in any, and the
\* paths pending plus the paths in the transfer are the paths of the buffers.
C5_Conservation ==
    LET ts == TransferSlices IN
    /\ \A d \in Threads : \A i \in 0..(th.w[d].work_buf.len - 1) :
           Cardinality(HoldersOf(ts, d, i)) = IF i \in Carved(d) THEN 1 ELSE 0
    /\ \A j \in 1..Len(ts) :
           ts[j].source = "Shared" /\ ts[j].end <= th.w[ts[j].owner].work_buf.len
    /\ SumUpTo([w \in Threads |-> total_pending(th.w[w].work_buf)], NUM_THREADS)
         + SlicesLen(ts)
       = SumUpTo([w \in Threads |-> th.w[w].work_buf.len], NUM_THREADS)

\* A slice has been split: one part was delivered to and taken by a worker
\* that did not carve it, the rest is still in available_surplus.
C5_Witness ==
    \E d, w \in Threads :
        /\ d # w
        /\ \E a \in 1..Len(ex.available_surplus[d]) :
               WorkSlice_len(ex.available_surplus[d][a]) > 0
        /\ \E b \in 1..Len(Flatten(th.w[w].received)) :
               /\ Flatten(th.w[w].received)[b].owner = d
               /\ WorkSlice_len(Flatten(th.w[w].received)[b]) > 0
               /\ \E a \in 1..Len(ex.available_surplus[d]) :
                      ex.available_surplus[d][a].start = Flatten(th.w[w].received)[b].end

\* The indices of a slice.
SliceRange(s) == s.start..(s.end - 1)

\* C6: work buffer claim disjointness and coverage.  The [start, end) ranges
\* of all slices handed out by one WorkBuf are pairwise disjoint and their
\* union is exactly [0, pending_from).
C6_ClaimsPartition ==
    LET cl == work_buf.claims IN
    /\ \A i, j \in 1..Len(cl) : i # j => SliceRange(cl[i]) \cap SliceRange(cl[j]) = {}
    /\ UNION {SliceRange(cl[i]) : i \in 1..Len(cl)} = 0..(work_buf.pending_from - 1)

\* A Local and a Shared claim, both non-empty, were issued against a buffer
\* that was extended after its first claim.
C6_Witness ==
    LET cl == work_buf.claims IN
    /\ Len(cl) >= 2
    /\ \E i, j \in 1..Len(cl) :
         /\ cl[i].source = "Local" /\ cl[j].source = "Shared"
         /\ WorkSlice_len(cl[i]) > 0 /\ WorkSlice_len(cl[j]) > 0
    /\ work_buf.pending_from > MaxSeed

\* The last min(k, MAX_HISTORY) of the k samples pushed so far.
LastPushed ==
    LET k == Len(hv.pushed)
        n == Min(k, MAX_HISTORY)
    IN SubSeq(hv.pushed, k - n + 1, k)

\* C7: rolling average.  After k pushes the average is the mean of the last
\* min(k, MAX_HISTORY) pushed samples; stated where that mean is a whole
\* number, so that the integer sample type can hold it exactly.
C7_RollingAverage ==
    LET n == Len(LastPushed) IN
    (n > 0 /\ SumSeq(LastPushed) % n = 0) => hv.average = SumSeq(LastPushed) \div n

\* C8: try_lock returns true and increases current by exactly 1 iff
\* current < limit beforehand; otherwise it returns false and leaves
\* current unchanged.
C8_TryLock ==
    \A i \in 1..Len(sem.trace) :
        LET c == sem.trace[i] IN
        c.op = "try_lock" =>
            /\ c.ret <=> c.pre < sem.limit
            /\ c.ret => c.post = c.pre + 1
            /\ ~c.ret => c.post = c.pre

C10_ReleaseMakesRoomForOne ==
    \A i \in 1..Len(sem.trace) :
        LET tr == sem.trace IN
        (tr[i].op = "unlock" /\ tr[i].live_pre = sem.limit) =>
            /\ tr[i].post = sem.limit - 1
            /\ (i + 1 <= Len(tr) /\ tr[i + 1].op = "try_lock") => tr[i + 1].ret
            /\ (i + 2 <= Len(tr) /\ tr[i + 1].op = "try_lock" /\ tr[i + 2].op = "try_lock")
                   => ~tr[i + 2].ret


\* C11: counter invariant.  In every state reached by any sequence of
\* try_lock, unlock and is_locked calls (unlock on an empty semaphore
\* included), 0 <= current <= limit, and no call made an unsigned
\* subtraction that went below zero.
C11_CounterInvariant ==
    /\ 0 <= sem.curr /\ sem.curr <= sem.limit
    /\ \A i \in 1..Len(sem.trace) : ~sem.trace[i].underflow

\* C12: is_locked returns true if and only if no capacity remains
\* (current = limit), which are exactly the states where try_lock fails.
C12_IsLocked ==
    \A i \in 1..Len(sem.trace) :
        LET c == sem.trace[i] IN
        (c.op = "is_locked" /\ ~c.panic) =>
            /\ c.ret <=> c.pre = sem.limit
            /\ c.ret <=> ~try_lock(sem.draft, [curr |-> c.pre, limit |-> sem.limit],
                                   sem.overflow_checks).ret

\* C13: notify_one's decision is RequeueOne when the lock state is locked,
\* UnparkOne when it is unlocked, and Abort (or no call of the parking
\* engine at all) when nothing is flagged as parked; so notify_one never
\* unparks a waiter while the state is_locked.
C13_NotifyOneDecision ==
    \A i \in 1..Len(lk.notes) :
        LET n == lk.notes[i] IN
        (~n.all /\ ~n.panic) =>
            /\ (n.flagged /\ n.is_locked) => n.op = "RequeueOne"
            /\ (n.flagged /\ ~n.is_locked) => n.op = "UnparkOne"
            /\ ~n.flagged => n.op \in {"Abort", "none"}
            /\ n.is_locked => n.woken = 0

\* C14: notify_all, when waiters are flagged as parked, chooses RequeueAll
\* if the state is locked and UnparkOneRequeueRest if it is unlocked, wakes
\* at most one waiter, and returns the number of threads unparked plus
\* requeued; when no waiter is flagged it returns 0 and changes nothing.
C14_NotifyAllDecision ==
    \A i \in 1..Len(lk.notes) :
        LET n == lk.notes[i] IN
        (n.all /\ ~n.panic) =>
            /\ n.flagged =>
                 /\ n.op = IF n.is_locked THEN "RequeueAll" ELSE "UnparkOneRequeueRest"
                 /\ n.woken <= 1
                 /\ n.ret = n.woken + Len(n.queue_post)
            /\ ~n.flagged =>
                 /\ n.ret = 0 /\ n.woken = 0
                 /\ n.queue_post = n.queue_pre /\ ~n.parked_post

C16_WrapperRetriesOnTimeout ==
    (lk.mode = "wrapper" /\ lk.calls # <<>>) =>
        (lk.pc \in {"call", "parked"} <=> lk.calls[Len(lk.calls)].outcome = "TimedOut")

\* C17: guard release runs exactly once per acquired guard.  On every exit
\* path, what the drop of a guard calls is state.unlock() and then a notify,
\* in that order and once each: never a second unlock, and never a finished
\* release without its notify.
C17_ReleaseOnce ==
    \A t \in Holders :
        /\ lk.events[t] \in {<<>>, <<"unlock">>, <<"unlock", "notify">>}
        /\ lk.pc[t] \in {"done", "panicked"} => lk.events[t] = <<"unlock", "notify">>

\* The lone work buffer before and after a step.
WbBefore == TheWorkBuf

WbAfter == [len |-> work_buf'.len, pending_from |-> work_buf'.pending_from,
            shared_with_others |-> work_buf'.shared_with_others]

\* C18: work buffer cursor invariant.  Across any interleaving of claims
\* and extend calls, 0 <= pending_from <= length of the backing vector, and
\* pending_from never decreases.
C18_CursorInvariant ==
    /\ [](0 <= work_buf.pending_from /\ work_buf.pending_from <= Len(work_buf.buf)
          /\ Len(work_buf.buf) = work_buf.len)
    /\ [][work_buf'.pending_from >= work_buf.pending_from]_vars

\* A claim was cut short at the end of a buffer that had been extended
\* beyond its seed: the cursor sits at the length.
C18_Witness ==
    /\ work_buf.last_op \in {"get_work_for_local", "get_work_for_sharing"}
    /\ work_buf.claims # <<>>
    /\ work_buf.last_size > WorkSlice_len(work_buf.claims[Len(work_buf.claims)])
    /\ work_buf.pending_from = work_buf.len
    /\ work_buf.len > MaxSeed

\* C19: a claim of size n on a buffer with p = len - pending_from pending
\* entries returns the slice [pending_from, pending_from + min(n, p)),
\* advances pending_from by min(n, p) and reduces total_pending() by exactly
\* min(n, p).
C19_ClaimEffect ==
    [][work_buf'.last_op \in {"get_work_for_local", "get_work_for_sharing"} =>
         LET n == work_buf'.last_size
             p == work_buf.len - work_buf.pending_from
             slice == work_buf'.claims[Len(work_buf'.claims)]
         IN /\ Len(work_buf'.claims) = Len(work_buf.claims) + 1
            /\ slice.start = work_buf.pending_from
            /\ slice.end = work_buf.pending_from + Min(n, p)
            /\ work_buf'.pending_from = work_buf.pending_from + Min(n, p)
            /\ total_pending(WbAfter) = total_pending(WbBefore) - Min(n, p)
            /\ total_pending(WbBefore) = p]_vars

\* The spec's example scaled to the bounds: on a seeded buffer a
\* get_work_for_local and then a get_work_for_sharing, both served in full,
\* gave adjacent slices from 0 and left paths pending.
C19_Witness ==
    /\ Len(work_buf.claims) = 2
    /\ work_buf.claims[1].source = "Local" /\ work_buf.claims[2].source = "Shared"
    /\ work_buf.claims[1].start = 0 /\ work_buf.claims[1].end > 0
    /\ work_buf.claims[2].start = work_buf.claims[1].end
    /\ work_buf.claims[2].end > work_buf.claims[2].start
    /\ work_buf.last_size = WorkSlice_len(work_buf.claims[2])
    /\ total_pending(TheWorkBuf) = work_buf.len - work_buf.claims[2].end
    /\ total_pending(TheWorkBuf) > 0

\* C20: extend is append-only.  It leaves pending_from, shared_with_others
\* and every existing entry (content and index) unchanged, so every slice
\* issued before still denotes the same paths, and raises total_pending()
\* by exactly the number of appended paths.
C20_ExtendAppendOnly ==
    [][work_buf'.last_op = "extend" =>
         /\ work_buf'.pending_from = work_buf.pending_from
         /\ work_buf'.shared_with_others = work_buf.shared_with_others
         /\ work_buf'.claims = work_buf.claims
         /\ Len(work_buf'.buf) = Len(work_buf.buf) + work_buf'.last_size
         /\ \A i \in 1..Len(work_buf.buf) : work_buf'.buf[i] = work_buf.buf[i]
         /\ \A c \in 1..Len(work_buf.claims) : \A i \in SliceRange(work_buf.claims[c]) :
                work_buf'.buf[i + 1] = work_buf.buf[i + 1]
         /\ total_pending(WbAfter) = total_pending(WbBefore) + work_buf'.last_size]_vars

\* An extend ran on a buffer that had issued a Local and a Shared slice,
\* both non-empty, and still had paths pending.
C20_Witness ==
    /\ work_buf.last_op = "extend"
    /\ \E i, j \in 1..Len(work_buf.claims) :
         /\ work_buf.claims[i].source = "Local" /\ WorkSlice_len(work_buf.claims[i]) > 0
         /\ work_buf.claims[j].source = "Shared" /\ WorkSlice_len(work_buf.claims[j]) > 0
    /\ work_buf.shared_with_others # <<>>
    /\ total_pending(TheWorkBuf) > work_buf.last_size

\* C21: split(n) returns (self, None) for every n >= len, n = len included;
\* only for n < len does it return a second slice.
C21_SplitNone ==
    \A i \in 1..Len(work_buf.calls) :
        LET c == work_buf.calls[i] IN
        /\ c.split_size >= WorkSlice_len(c.self) => (c.first = c.self /\ c.rest = <<>>)
        /\ c.rest # <<>> => c.split_size < WorkSlice_len(c.self)

\* C22: split(n) with n < len partitions the slice: both returned slices are
\* over the original backing buffer with the original source tag, their index
\* ranges are disjoint and the union of the ranges is the original range.
C22_SplitPartitions ==
    \A i \in 1..Len(work_buf.calls) :
        LET c == work_buf.calls[i] IN
        c.split_size < WorkSlice_len(c.self) =>
            /\ c.rest # <<>>
            /\ c.first.owner = c.self.owner /\ c.rest[1].owner = c.self.owner
            /\ c.first.source = c.self.source /\ c.rest[1].source = c.self.source
            /\ SliceRange(c.first) \cap SliceRange(c.rest[1]) = {}
            /\ SliceRange(c.first) \cup SliceRange(c.rest[1]) = SliceRange(c.self)

C22_Witness ==
    \E i \in 1..Len(work_buf.calls) :
        LET c == work_buf.calls[i] IN
        /\ 0 < c.split_size /\ c.split_size < WorkSlice_len(c.self)
        /\ c.rest # <<>> /\ SliceRange(c.first) # {} /\ SliceRange(c.rest[1]) # {}

\* The failures among the answers the filesystem gave for the paths visited
\* so far: a failed read_dir, a failed entry, an entry without metadata.
ScanFailures ==
    {[path |-> th.visited[i], entry |-> 0, err |-> "read_err"] :
        i \in {k \in 1..Len(th.reads) : ~th.reads[k].ok}}
    \cup UNION {{[path |-> th.visited[i], entry |-> j, err |-> th.reads[i].entries[j]] :
                   j \in {k \in 1..Len(th.reads[i].entries) :
                             th.reads[i].entries[k] \in {"entry_err", "meta_err"}}} :
               i \in 1..Len(th.reads)}

\* C23: a failed read or failed entry never aborts a batch: the paths visited
\* are the slice's paths from start up to the cursor, each once and in order
\* whether its read succeeded or failed, every failure is in the worker's
\* error list, and when the slice is finished every path of [start, end) has
\* been visited.
C23_FailuresDoNotAbort ==
    /\ th.visited = [i \in 1..(th.slice.cursor - th.slice.start) |-> th.slice.start + i - 1]
    /\ th.slice.cursor <= th.slice.end
    /\ {th.errored[i] : i \in 1..Len(th.errored)} = ScanFailures
    /\ Len(th.errored) = Cardinality(ScanFailures)
    /\ th.pc = "slice_done" =>
          /\ Len(th.visited) = WorkSlice_len(th.slice)
          /\ th.newly_processed = WorkSlice_len(th.slice)

C23_Witness ==
    /\ th.pc = "slice_done"
    /\ Len(th.visited) = 2
    /\ ~th.reads[1].ok
    /\ th.reads[2].ok /\ th.reads[2].entries = <<"meta_err">>
    /\ Len(th.errored) = 2

C25_DistinctErrorValues ==
    /\ ex.pc # "panicked"
    /\ ex.pc = "returned" =>
          \/ ex.result = "Err(StatusRequestSendError)" /\ chan.gone # {}
          \/ ex.result = "Err(PrintSenderDisconnected)" /\ chan.print = "Disconnected"
    /\ (ex.pc = "returned" /\ chan.print # "Disconnected") =>
          ex.result = "Err(StatusRequestSendError)"
    /\ (ex.pc = "returned" /\ chan.gone = {}) =>
          ex.result = "Err(PrintSenderDisconnected)"

\* C26: unlock on a semaphore whose count is 0 is a fatal logic error: the
\* call enters an error state instead of returning normally with the state
\* unchanged.
C26_UnlockAtZeroFatal ==
    \A i \in 1..Len(sem.trace) :
        LET c == sem.trace[i] IN
        (c.op = "unlock" /\ c.pre = 0 /\ c.live_pre = 0) => c.panic

\* C26, amended: unlock on a semaphore whose count is 0 returns normally
\* with the state unchanged; it is not a fatal error.
C26_UnlockAtZeroReturns ==
    \A i \in 1..Len(sem.trace) :
        LET c == sem.trace[i] IN
        (c.op = "unlock" /\ c.pre = 0 /\ c.live_pre = 0) =>
            /\ ~c.panic
            /\ c.post = c.pre
            /\ i = Len(sem.trace) => ~sem.panicked /\ sem.curr = 0 /\ sem.live = 0

C26_Witness ==
    \E i \in 1..Len(sem.trace) :
        /\ sem.trace[i].op = "unlock"
        /\ sem.trace[i].pre = 0 /\ sem.trace[i].live_pre = 0
        /\ i < Len(sem.trace) /\ sem.trace[i + 1].op = "try_lock"

C28_AcquisitionProtocol ==
    [][\A w \in Threads :
        LET t == th.w[w]
            u == th'.w[w]
            Untouched(ss) == \A i \in 1..Len(ss) : ss[i].cursor = ss[i].start
        IN /\ (t.pc = "get_work" /\ u # t /\ ~empty_pending(t.work_buf)) =>
                 /\ u.pc = "scan"
                 /\ Len(u.work_slices) = 1
                 /\ u.work_slices[1].source = "Local" /\ u.work_slices[1].owner = w
                 /\ WorkSlice_len(u.work_slices[1]) >= 1
                 /\ WorkSlice_len(u.work_slices[1]) <= DEFAULT_WORK_CHUNK_SIZE
                 /\ Untouched(u.work_slices)
                 /\ chan'.out_of_work = chan.out_of_work
                 /\ chan'.new_work = chan.new_work
                 /\ chan'.status[w] = Append(chan.status[w], "Busy")
           /\ (t.pc = "get_work" /\ u # t /\ empty_pending(t.work_buf)) =>
                 /\ u.pc = "recv" /\ u.work_slices = <<>>
                 /\ chan'.status[w] = Append(chan.status[w], "Idle")
                 /\ Len(chan'.out_of_work[w]) = Len(chan.out_of_work[w]) + 1
                 /\ Last(chan'.out_of_work[w]) >= 1
           /\ (t.pc = "recv" /\ u # t) =>
                 /\ chan.new_work[w] # <<>>
                 /\ u.pc = "scan" /\ u.work_slices = Head(chan.new_work[w])
                 /\ Untouched(u.work_slices)
                 /\ chan'.out_of_work[w] = chan.out_of_work[w]
                 /\ chan'.status[w] = Append(chan.status[w], "Busy")
           /\ (t.pc # "scan" /\ u.pc = "scan") => Last(chan'.status[w]) = "Busy"
           /\ (u.work_slices # t.work_slices /\ ~Untouched(u.work_slices)) =>
                 t.pc = "scan" /\ Last(chan.status[w]) = "Busy"
      ]_vars

C28_Witness ==
    \E w \in Threads :
        /\ th.w[w].pc = "scan"
        /\ Len(th.w[w].received) = 1 /\ th.w[w].received[1] # <<>>
        /\ th.w[w].work_slices # <<>> /\ Head(th.w[w].work_slices).cursor > 0
        /\ Len(chan.result[w]) >= 1 /\ chan.result[w][1].newly_processed > 0
        /\ Len(chan.out_of_work[w]) = 1
        /\ Len(chan.status[w]) >= 4
        /\ SubSeq(chan.status[w], Len(chan.status[w]) - 1, Len(chan.status[w]))
               = <<"Idle", "Busy">>

\* C29: a redistribution tick with nothing in flight.  When the maximum
\* in_flight over the handles is 0, redistribute_work dispatches no work
\* delivery, sends no surplus request and reports NoPathsInFlight; when the
\* maximum is greater than 0 it does not report NoPathsInFlight.
C29_NothingInFlightTick ==
    [][(ex.run = "execute" /\ ex.pc = "redistribute_work" /\ ex'.pc # ex.pc) =>
         LET max_in_flights ==
                 MaxUpTo([w \in Threads |-> ex.handles[w].in_flight], NUM_THREADS)
         IN /\ max_in_flights = 0 =>
                  /\ ex'.result = "NoPathsInFlight"
                  /\ chan'.new_work = chan.new_work
                  /\ chan'.surplus_request = chan.surplus_request
            /\ max_in_flights > 0 => ex'.result # "NoPathsInFlight"
      ]_vars

\* C30: a redistribution tick with work in flight.  When the maximum
\* in_flight is greater than 0, with fair_share = sum(in_flight) / N, every
\* worker whose in_flight is below fair_share is sent surplus slices when
\* returned surplus exists and otherwise a surplus request of the size of
\* its shortfall, fair_share - in_flight; a worker at or above fair_share is
\* sent neither.
C30_WorkInFlightTick ==
    [][(ex.run = "execute" /\ ex.pc = "redistribute_work" /\ ex'.pc # ex.pc) =>
         LET in_flights == [w \in Threads |-> ex.handles[w].in_flight]
             fair_share == SumUpTo(in_flights, NUM_THREADS) \div NUM_THREADS
             returned == \E w \in Threads :
                             ex.available_surplus[w] \o chan.surplus_fulfill[w] # <<>>
         IN MaxUpTo(in_flights, NUM_THREADS) > 0 =>
              \A w \in Threads :
                  IF in_flights[w] < fair_share
                  THEN IF returned
                       THEN /\ Len(chan'.new_work[w]) = Len(chan.new_work[w]) + 1
                            /\ Last(chan'.new_work[w]) # <<>>
                       ELSE chan'.surplus_request[w] =
                                Append(chan.surplus_request[w], fair_share - in_flights[w])
                  ELSE /\ chan'.new_work[w] = chan.new_work[w]
                       /\ chan'.surplus_request[w] = chan.surplus_request[w]
      ]_vars

\* C31: answering a surplus request.  A worker looks at its surplus requests
\* only after it has consumed every slice of its batch; for an outstanding
\* request of size r it carves exactly min(r, total_pending) paths starting at
\* pending_from into one Shared slice and sends it, and it sends nothing when
\* that count is 0.
C31_AnswerSurplusRequest ==
    [][\A w \in Threads :
        LET t == th.w[w]
            u == th'.w[w]
            req == chan.surplus_request[w]
            n == Min(Last(req), total_pending(t.work_buf))
            answered == u # t /\ t.pc = "scan" /\ t.work_slices = <<>>
        IN /\ (chan'.surplus_fulfill[w] # chan.surplus_fulfill[w]
                 \/ Len(chan'.surplus_request[w]) < Len(req)
                 \/ u.work_buf.shared_with_others # t.work_buf.shared_with_others)
              => answered
           /\ (answered /\ req = <<>>) =>
                 /\ chan'.surplus_fulfill[w] = chan.surplus_fulfill[w]
                 /\ u.work_buf = t.work_buf
           /\ (answered /\ req # <<>> /\ n > 0) =>
                 /\ chan'.surplus_fulfill[w] =
                        Append(chan.surplus_fulfill[w],
                               [source |-> "Shared", owner |-> w,
                                start |-> t.work_buf.pending_from,
                                end |-> t.work_buf.pending_from + n,
                                cursor |-> t.work_buf.pending_from])
                 /\ u.work_buf.pending_from = t.work_buf.pending_from + n
                 /\ chan'.surplus_request[w] = <<>>
           /\ (answered /\ req # <<>> /\ n = 0) =>
                 /\ chan'.surplus_fulfill[w] = chan.surplus_fulfill[w]
                 /\ u.work_buf.pending_from = t.work_buf.pending_from
                 /\ chan'.surplus_request[w] = <<>>
      ]_vars

C31_Witness ==
    \E w \in Threads :
        /\ Len(chan.surplus_fulfill[w]) = 1
        /\ WorkSlice_len(chan.surplus_fulfill[w][1]) = 1
        /\ chan.surplus_fulfill[w][1].start > 0
        /\ total_pending(th.w[w].work_buf) > 0
        /\ chan.result[w] # <<>>

\* C32: parked-flag accuracy.  In every reachable state of a lock, if at
\* least one thread is parked on the lock's queue then the lock's has-parked
\* flag is true.
C32_ParkedFlagAccurate == lk.queue # <<>> => lk.parked

\* C33: uncontended acquisition.  A thread that calls wait_for_access on a
\* semaphore with free capacity (current < limit), no other thread holding
\* or releasing a guard, obtains a guard without depending on another
\* thread's notify_one or notify_all: it is never suspended in park without
\* a timeout, where only another thread's notify can resume it, and its call
\* does not end in a panic.
C33_UncontendedAcquisition ==
    (lk.mode = "wrapper" /\ lk.curr < lk.limit) =>
        /\ ~(lk.pc = "parked" /\ ~lk.has_timeout)
        /\ lk.pc # "panicked"

\* The paths held in the executor's available_surplus.
HeldPaths(e) ==
    UNION {UNION {{<<d, i>> : i \in e.available_surplus[d][j].start ..
                                    (e.available_surplus[d][j].end - 1)} :
                  j \in 1..Len(e.available_surplus[d])} : d \in Threads}

AllYielded == ConcatUpTo([w \in Threads |-> th.w[w].yielded], NUM_THREADS)

\* C35: no path is scanned twice.  Across all workers and all slices, each
\* index of each buffer is yielded by next at most once.
C35_NoPathScannedTwice ==
    \A a, b \in DOMAIN AllYielded : AllYielded[a] = AllYielded[b] => a = b

C35_Witness ==
    /\ \E w \in Threads :
        /\ th.w[w].work_slices # <<>>
        /\ Head(th.w[w].work_slices).start >= DEFAULT_WORK_CHUNK_SIZE
        /\ Head(th.w[w].work_slices).cursor > Head(th.w[w].work_slices).start
        /\ \E v \in Threads \ {w} : th.w[v].yielded # <<>>
    /\ Len(AllYielded) >= 4

\* The handles whose seed_work holds seed path p.
SeededWith(p) ==
    {h \in DOMAIN ex.handles : \E j \in DOMAIN ex.handles[h] : ex.handles[h][j] = p}

\* C36: seed partition.  Once Executor::new has built its NUM_THREADS
\* handles, every seed path is in the seed_work of exactly one of them.
C36_SeedPartition ==
    (ex.run = "new" /\ Len(ex.handles) = BUILD_NUM_THREADS)
        => \A p \in 1..ex.given : Cardinality(SeededWith(p)) = 1

\* C37: processed-count accuracy.  Executor.processed equals the sum of the
\* newly_processed values of all results drained so far, which every handle
\* accumulates in new_dirs_processed, and so never exceeds the number of
\* paths the workers have consumed.
C37_ProcessedCount ==
    ex.run = "execute" =>
        /\ ex.processed = SumUpTo([w \in Threads |-> ex.handles[w].new_dirs_processed],
                                  NUM_THREADS)
        /\ ex.processed <= Len(AllYielded)

\* C38: in-flight view accuracy.  When a tick drains one or more results of
\* a worker, the handle's in_flight is afterwards the in_flight carried by
\* the most recent of them.
C38_InFlightView ==
    [][\A w \in Threads :
          (ex.pc = "process_results" /\ ex'.pc # ex.pc /\ chan.result[w] # <<>>)
             => ex'.handles[w].in_flight = Last(chan.result[w]).in_flight]_vars

\* C39: task ticket counter.  Every wait_for_ticket that has returned
\* consumed a ticket issued by an earlier notify_all, so the counter is the
\* number of tickets issued and not yet consumed; no call fails, and the
\* counter never goes below 0.
C39_TicketCounter ==
    lk.run = "ticket" =>
        /\ lk.returned <= lk.issued
        /\ lk.counter = lk.issued - lk.returned
        /\ lk.counter >= 0
        /\ \A t \in (1..NWaiters) : lk.pc[t] # "panicked"

\* C40: shared buffer read.  A read that found no unread items waited: it
\* returned None only with still nothing to read, and otherwise returned
\* items a write appended meanwhile.  Every result that is not None is the
\* run of items that starts where the previous one ended and lies within
\* the buffer, so no item is returned twice.
C40_SharedBufRead ==
    hv.run = "shared_buf" =>
        \A j \in DOMAIN hv.reads :
            LET r == hv.reads[j]
                earlier == {i \in 1..(j - 1) : hv.reads[i].result # <<>>}
            IN /\ r.result = <<>> => r.found = 0
               /\ (r.result # <<>> /\ r.found = 0) => r.result[1].until > r.result[1].from
               /\ r.result # <<>> =>
                    /\ r.result[1].from <= r.result[1].until
                    /\ r.result[1].until <= hv.len
                    /\ r.result[1].from =
                         IF earlier = {} THEN 0
                         ELSE hv.reads[CHOOSE i \in earlier : \A k \in earlier : k <= i]
                                  .result[1].until

====
